---- MODULE Spec2Model ----
(***************************************************************************)
(* The per-request AI response lifecycle tracker of poe-canvas-utils: the  *)
(* usePoeAi hook (src/src/hooks/usePoeAi.ts) and the second copy of it     *)
(* that ends src/src/hooks/usePoeAiTextGenerator.ts, followed by the       *)
(* library's other parts, each under a specification of its own:           *)
(* usePoeAiTextGenerator, useLogger, the storage, tryCatch, geminiFilter   *)
(* and complexResponseParser utilities.                                    *)
(*                                                                         *)
(* Encoding conventions                                                    *)
(*   - a nullable value is a sequence of length 0 (null / undefined) or 1  *)
(*     (the value): Null == <<>>, Some(v) == <<v>>;                        *)
(*   - a string the code builds by interpolation is a sequence of tokens;  *)
(*     other strings are TLA+ strings, "" standing for a missing or empty  *)
(*     (falsy) string;                                                     *)
(*   - probabilities are kept in percent: the code divides the clamped     *)
(*     simulateErrorChance by 100 and compares with Math.random(), the     *)
(*     model compares the clamped percentage with 100 * Math.random().     *)
(***************************************************************************)
EXTENDS Integers, Sequences, FiniteSets, TLC

\* ------------------------------------------------------------------ bounds
MaxRequests == 2        \* sendToAI calls in one behaviour
MaxHandlerCalls == 2    \* invocations of the registered handler by the channel
MaxThrows == 1          \* invocations of a consumer callback that throw
MaxNow == 2             \* milliseconds the clock of SpecIds advances
MaxIdCalls == 3         \* sendToAI calls in one behaviour of SpecIds
MaxTextStates == 2      \* states usePoeAi delivers to one text request in TextSpec
MaxLogCalls == 2        \* calls of logger methods in one behaviour of LoggerSpec
MaxSaveCalls == 2       \* saveDataToFile calls in one behaviour of SaveSpec
MaxTryCalls == 2        \* tryCatchSync / tryCatchAsync calls in one behaviour of TrySpec
MaxFilterText == 6      \* characters of the text given to applyGeminiThinkingFilter
MaxParserText == 5      \* characters of the text given to complexResponseParser
MaxErrorMessages == 2   \* messages in the responses of a failed result in ErrorTextSpec
MaxRenders == 2         \* re-renders of the owning component in RenderSpec

\* ------------------------------------------------------------- encodings
Null == <<>>
Some(v) == <<v>>
IsNull(x) == x = <<>>
Val(x) == x[1]

\* Request ids: generateRequestId() returns 1, 2, ... in turn; StrayId is an id
\* it never returns.
Ids == 1..MaxRequests
StrayId == 0
AllIds == Ids \cup {StrayId}

\* Map helpers for activeRequests (a JavaScript Map keyed by requestId).
MapHas(m, k) == k \in DOMAIN m
MapSet(m, k, v) == [x \in (DOMAIN m) \cup {k} |-> IF x = k THEN v ELSE m[x]]
MapDelete(m, k) == [x \in (DOMAIN m) \ {k} |-> m[x]]
EmptyMap == [x \in {} |-> 0]

\* --------------------------------------------------------------- messages
\* A Message / Partial<Message>, reduced to the fields the hook reads.
Msg(sender, content, status, statusText) ==
    [senderId |-> sender, content |-> content, status |-> status, statusText |-> statusText,
     attachments |-> Null]

\* The attachment simulationSendUserMessageResult adds to a message without any.
PlaceholderAttachment == <<"placeholder.png">>

PartialStream == Msg("Bot", "Thinking...", "incomplete", "")
PartialDone == Msg("Bot", "Thinking... Done!", "complete", "")
PartialFailed == Msg("Bot", "Error", "error", "Bot failed")
PartialAnon == Msg("", "", "error", "")

\* Results the channel hands to the registered handler: status and responses
\* (responses is declared non-null in Poe.ts, the handler still guards with ??).
ChannelResults ==
    { [status |-> "incomplete", responses |-> Some(<<PartialStream>>)],
      [status |-> "complete",   responses |-> Some(<<PartialStream, PartialDone>>)],
      [status |-> "complete",   responses |-> Some(<<>>)],
      [status |-> "error",      responses |-> Some(<<PartialDone, PartialFailed, PartialAnon>>)],
      [status |-> "cancelled",  responses |-> Null] }

\* ------------------------------------------------------------ hook options
DefaultErrorChance == 20

Min(a, b) == IF a < b THEN a ELSE b
Max(a, b) == IF a > b THEN a ELSE b

\* Mutant of getDefaultHookOptions: the error chance is not clamped.
getDefaultHookOptionsUnclamped(options, poe) ==
    LET errorChanceInput == IF IsNull(options.simulateErrorChance)
                            THEN DefaultErrorChance
                            ELSE Val(options.simulateErrorChance)
        defaultSimulation == ~poe
    IN  [ simulation |-> IF IsNull(options.simulation) THEN defaultSimulation
                         ELSE Val(options.simulation),
          simulateErrorChance |-> errorChanceInput,
          logger |-> IF IsNull(options.logger) THEN "console" ELSE Val(options.logger),
          simulationResponses |-> options.simulationResponses ]

\* getDefaultHookOptions: options is the consumer's UseAiOptions (nullable
\* fields), poe tells whether window.Poe exists when the options are read.
getDefaultHookOptions(options, poe) ==
    LET errorChanceInput == IF IsNull(options.simulateErrorChance)
                            THEN DefaultErrorChance
                            ELSE Val(options.simulateErrorChance)
        clampedChance == Min(Max(errorChanceInput, 0), 100)
        defaultSimulation == ~poe
    IN  [ simulation |-> IF IsNull(options.simulation) THEN defaultSimulation
                         ELSE Val(options.simulation),
          simulateErrorChance |-> clampedChance,
          logger |-> IF IsNull(options.logger) THEN "console" ELSE Val(options.logger),
          simulationResponses |-> options.simulationResponses ]

\* ------------------------------------------------------- simulated results
DefaultContent(index) ==
    CASE index = 1 -> "This is simulated message #1."
      [] index = 2 -> "This is simulated message #2."
      [] OTHER     -> "This is simulated message #n."

Or(a, b) == IF a # "" THEN a ELSE b

\* simulationSendUserMessageResult: full messages from partial ones.
simulationSendUserMessageResult(includeDefaultAttachment, status, responses) ==
    LET partials == IF IsNull(responses) THEN <<Msg("", "", "", "")>> ELSE Val(responses)
        message(i) ==
            LET partialMsg == partials[i]
                filled == Msg(Or(partialMsg.senderId, "SimulatedAI"),
                              Or(partialMsg.content, DefaultContent(i)),
                              Or(partialMsg.status, status),
                              Or(partialMsg.statusText,
                                 IF status = "error" THEN "Simulated error" ELSE ""))
            IN  [filled EXCEPT !.attachments =
                    IF includeDefaultAttachment /\ IsNull(partialMsg.attachments)
                    THEN Some(PlaceholderAttachment)
                    ELSE partialMsg.attachments]
    IN  [status |-> status,
         responses |-> Some([i \in 1..Len(partials) |-> message(i)])]

SimulatedErrorText == "Simulated error occurred (Error Chance, Rolled)"

\* Mutant of SimulatedResult: the guard errorChance > 0 is missing.
SimulatedResultNoZeroGuard(opts, override, randomRoll) ==
    LET responseMessages == IF IsNull(override) THEN opts.simulationResponses ELSE override
    IN  IF randomRoll <= opts.simulateErrorChance
        THEN simulationSendUserMessageResult(FALSE, "error",
                 Some(<<Msg("", "", "error", SimulatedErrorText)>>))
        ELSE simulationSendUserMessageResult(TRUE, "complete", responseMessages)

\* Mutant of SimulatedResult: the hook-level messages win over the override.
SimulatedResultGlobalFirst(opts, override, randomRoll) ==
    LET errorChance == opts.simulateErrorChance
        willSimulateError == errorChance > 0 /\ randomRoll <= errorChance
        responseMessages == IF IsNull(opts.simulationResponses) THEN override
                            ELSE opts.simulationResponses
    IN  IF willSimulateError
        THEN simulationSendUserMessageResult(FALSE, "error",
                 Some(<<Msg("", "", "error", SimulatedErrorText)>>))
        ELSE simulationSendUserMessageResult(TRUE, "complete", responseMessages)

\* The result the simulation timer fabricates for a random roll (in percent).
SimulatedResult(opts, override, randomRoll) ==
    LET errorChance == opts.simulateErrorChance
        willSimulateError == errorChance > 0 /\ randomRoll <= errorChance
        responseMessages == IF IsNull(override) THEN opts.simulationResponses ELSE override
    IN  IF willSimulateError
        THEN simulationSendUserMessageResult(FALSE, "error",
                 Some(<<Msg("", "", "error", SimulatedErrorText)>>))
        ELSE simulationSendUserMessageResult(TRUE, "complete", responseMessages)

\* ------------------------------------------------------------ request state
InitialState(requestId) ==
    [requestId |-> requestId, generating |-> TRUE, error |-> Null,
     responses |-> Null, status |-> "incomplete"]

\* Mutant of ErrorState: generating is left as it was.
ErrorStateStillGenerating(initialState, errorMsg) ==
    [initialState EXCEPT !.error = Some(errorMsg), !.status = "error"]

\* {...initialState, generating: false, error: errorMsg, status: 'error'}
ErrorState(initialState, errorMsg) ==
    [initialState EXCEPT !.generating = FALSE, !.error = Some(errorMsg), !.status = "error"]

GenericErrorText == <<"An unknown error occurred during response generation.">>

RECURSIVE JoinLines(_)
JoinLines(lines) ==
    IF lines = <<>> THEN <<>>
    ELSE IF Len(lines) = 1 THEN lines[1]
    ELSE lines[1] \o <<"\n">> \o JoinLines(Tail(lines))

\* Mutant of ErrorMsg: every message contributes a line, whatever its status.
ErrorMsgEveryMessage(result) ==
    IF IsNull(result.responses) THEN GenericErrorText
    ELSE LET msgs == Val(result.responses)
             line(msg) == <<"[", Or(msg.senderId, "Bot"), " Error]: ",
                            Or(msg.statusText, "Unknown error")>>
             joined == JoinLines([i \in 1..Len(msgs) |-> line(msgs[i])])
         IN  IF joined = <<>> THEN GenericErrorText ELSE joined

\* The error text of a result with status error:
\* responses?.map(...).filter(Boolean).join("\n") || generic.
ErrorMsg(result) ==
    IF IsNull(result.responses) THEN GenericErrorText
    ELSE LET msgs == Val(result.responses)
             line(msg) == <<"[", Or(msg.senderId, "Bot"), " Error]: ",
                            Or(msg.statusText, "Unknown error")>>
             failed == SelectSeq(msgs, LAMBDA m : m.status = "error")
             joined == JoinLines([i \in 1..Len(failed) |-> line(failed[i])])
         IN  IF joined = <<>> THEN GenericErrorText ELSE joined

UnknownStatusError(status) == <<"Unknown status received from AI handler: ", status>>

\* Mutant of NewState: generating until the request completes.
NewStateGeneratingUnlessComplete(currentState, result) ==
    LET base == [currentState EXCEPT
                    !.status = result.status,
                    !.generating = (result.status # "complete"),
                    !.responses = IF IsNull(result.responses) THEN currentState.responses
                                  ELSE result.responses,
                    !.error = Null]
    IN  IF result.status = "error"
        THEN [base EXCEPT !.error = Some(ErrorMsg(result))]
        ELSE IF result.status # "incomplete" /\ result.status # "complete"
        THEN [base EXCEPT !.error = Some(UnknownStatusError(result.status)),
                          !.status = "error"]
        ELSE base

\* Mutant of NewState: a status outside incomplete, complete, error gets its
\* diagnostic but is passed on as it came.
NewStateUncoerced(currentState, result) ==
    LET base == [currentState EXCEPT
                    !.status = result.status,
                    !.generating = (result.status = "incomplete"),
                    !.responses = IF IsNull(result.responses) THEN currentState.responses
                                  ELSE result.responses,
                    !.error = Null]
    IN  IF result.status = "error"
        THEN [base EXCEPT !.error = Some(ErrorMsg(result))]
        ELSE IF result.status # "incomplete" /\ result.status # "complete"
        THEN [base EXCEPT !.error = Some(UnknownStatusError(result.status))]
        ELSE base

\* Mutant of NewState: the new messages are appended to those already held.
NewStateMerging(currentState, result) ==
    LET held == IF IsNull(currentState.responses) THEN <<>> ELSE Val(currentState.responses)
        base == [currentState EXCEPT
                    !.status = result.status,
                    !.generating = (result.status = "incomplete"),
                    !.responses = IF IsNull(result.responses) THEN currentState.responses
                                  ELSE Some(held \o Val(result.responses)),
                    !.error = Null]
    IN  IF result.status = "error"
        THEN [base EXCEPT !.error = Some(ErrorMsg(result))]
        ELSE IF result.status # "incomplete" /\ result.status # "complete"
        THEN [base EXCEPT !.error = Some(UnknownStatusError(result.status)),
                          !.status = "error"]
        ELSE base

\* handlePoeResponse, the computation of newState from the stored state.
NewState(currentState, result) ==
    LET base == [currentState EXCEPT
                    !.status = result.status,
                    !.generating = (result.status = "incomplete"),
                    !.responses = IF IsNull(result.responses) THEN currentState.responses
                                  ELSE result.responses,
                    !.error = Null]
    IN  IF result.status = "error"
        THEN [base EXCEPT !.error = Some(ErrorMsg(result))]
        ELSE IF result.status # "incomplete" /\ result.status # "complete"
        THEN [base EXCEPT !.error = Some(UnknownStatusError(result.status)),
                          !.status = "error"]
        ELSE base

\* Mutant of IsTerminal: only a completed request counts as finished.
IsTerminalCompleteOnly(state) == state.status = "complete"

\* The cleanup test of handlePoeResponse.
IsTerminal(state) == state.status = "complete" \/ state.status = "error"

\* ------------------------------------------------------------------ state
VARIABLES
    variant,         \* which copy of the hook runs: "then" (usePoeAi.ts) or
                     \* "await" (the copy in usePoeAiTextGenerator.ts)
    windowPoe,       \* window.Poe is defined
    hookOpts,        \* hookOpts.current, the normalised options
    isMounted,       \* isMounted.current
    registered,      \* the channel currently holds the hook's handler
    captured,        \* the channel was ever given the handler (it may call it late)
    activeRequests,  \* activeRequests.current: requestId -> [state, callback]
    timers,          \* pending simulation timers: [requestId, override]
    acks,            \* pending sendUserMessage promises: [requestId, thrown]
    events,          \* per request id, what happened, in order
    nextId,          \* sendToAI calls made so far
    calls,           \* handler invocations by the channel that named a request id
    thrown,          \* callback invocations that threw
    atTeardown,      \* history: Some(sendToAI calls made when the hook unmounted)
    handlerLogs,     \* the logger calls handlePoeResponse made in the step just taken
    errorChanceOption, \* options.simulateErrorChance as the consumer passed it
    logger,          \* logger as the last render read it from hookOpts.current
    globalSimulation,\* globalSimulation as the last render read it
    lifecycle,       \* history: renders, registrations, unregistrations, clears
    \* -- request ids as generateRequestId makes them (specification SpecIds)
    now,             \* Date.now(), in milliseconds
    issued,          \* per sendToAI call, in order: [id, done]
    \* -- usePoeAiTextGenerator (specification TextSpec)
    textRequest,     \* what sendTextMessage passed to sendToPoeAI, with its parser
    textCalls,       \* invocations of handlePoeAiState, in order
    \* -- useLogger (specification LoggerSpec)
    loggerCopy,      \* which copy of useLogger.ts runs
    logLevelInput,   \* the argument of useLogger
    logs,            \* the logs state
    pendingRef,      \* pendingRef.current
    consoleCalls,    \* calls of console methods, in order
    logCalls,        \* history: calls of logger methods, in order
    updaterQueued,   \* an updater given to setLogs waits for the next render
    \* -- loadDataFromFile and saveDataToFile (specification StorageSpec)
    loadOptions,     \* the options of the loadDataFromFile call, if one was made
    loadPc,          \* where that call is: "idle", "dialog", "reading", "done",
                     \* or "crashed" when an exception left reader.onload
    fileRead,        \* history: the e.target.result reader.onload was given
    resolved,        \* the values resolve() was called with, in order
    migrateCalls,    \* the arguments migrate was called with, in order
    validateCalls,   \* the arguments validate was called with, in order
    downloads,       \* anchor clicks, in order: the download attribute
    saveCalls,       \* history: saveDataToFile calls with what they returned
    \* -- tryCatchSync and tryCatchAsync (specification TrySpec)
    tryCalls,        \* history: the calls made, with how each ended
    \* -- applyGeminiThinkingFilter (specification FilterSpec)
    filterInput,     \* the text given, as its lines
    filterOutput,    \* what the filter returned for it, once it has run
    \* -- complexResponseParser (specification ParserSpec)
    parserInput,     \* the text given, as its tokens
    parserOutput     \* what the parser returned for it, once it has run

vars == <<variant, windowPoe, hookOpts, isMounted, registered, captured,
          activeRequests, timers, acks, events, nextId, calls, thrown, atTeardown,
          handlerLogs, errorChanceOption, logger, globalSimulation, lifecycle,
          now, issued, textRequest, textCalls,
          loggerCopy, logLevelInput, logs, pendingRef, consoleCalls, logCalls,
          updaterQueued,
          loadOptions, loadPc, fileRead, resolved, migrateCalls, validateCalls, downloads,
          saveCalls, tryCalls, filterInput, filterOutput, parserInput, parserOutput>>

\* The variables of the hook with abstract (fresh) request ids, and those of
\* the other components, each with the state in which it is not running.
hookVars == <<variant, windowPoe, hookOpts, isMounted, registered, captured,
              activeRequests, timers, acks, events, nextId, calls, thrown, atTeardown,
              handlerLogs, errorChanceOption, logger, globalSimulation, lifecycle>>
idVars == <<now, issued>>
textVars == <<textRequest, textCalls>>
loggerVars == <<loggerCopy, logLevelInput, logs, pendingRef, consoleCalls, logCalls,
                updaterQueued>>
storageVars == <<loadOptions, loadPc, fileRead, resolved, migrateCalls, validateCalls,
                 downloads, saveCalls>>
tryVars == <<tryCalls>>
filterVars == <<filterInput, filterOutput>>
parserVars == <<parserInput, parserOutput>>
utilVars == <<storageVars, tryVars, filterVars, parserVars>>
otherVars == <<idVars, textVars, loggerVars, utilVars>>
idOthers == <<textVars, loggerVars, utilVars>>
textOthers == <<idVars, loggerVars, utilVars>>
loggerOthers == <<idVars, textVars, utilVars>>
storageOthers == <<idVars, textVars, loggerVars, tryVars, filterVars, parserVars>>
tryOthers == <<idVars, textVars, loggerVars, storageVars, filterVars, parserVars>>
filterOthers == <<idVars, textVars, loggerVars, storageVars, tryVars, parserVars>>
parserOthers == <<idVars, textVars, loggerVars, storageVars, tryVars, filterVars>>
IdIdle == now = 0 /\ issued = <<>>
TextIdle == textRequest = <<>> /\ textCalls = <<>>
LoggerIdle ==
    /\ loggerCopy = "part_005"
    /\ logLevelInput = <<>>
    /\ logs = <<>>
    /\ pendingRef = <<>>
    /\ consoleCalls = <<>>
    /\ logCalls = <<>>
    /\ updaterQueued = FALSE
StorageIdle ==
    /\ loadOptions = <<>>
    /\ loadPc = "idle"
    /\ fileRead = <<>>
    /\ resolved = <<>>
    /\ migrateCalls = <<>>
    /\ validateCalls = <<>>
    /\ downloads = <<>>
    /\ saveCalls = <<>>
TryIdle == tryCalls = <<>>
FilterIdle == filterInput = <<>> /\ filterOutput = <<>>
ParserIdle == parserInput = <<>> /\ parserOutput = <<>>
UtilIdle == StorageIdle /\ TryIdle /\ FilterIdle /\ ParserIdle
OtherIdle == IdIdle /\ TextIdle /\ LoggerIdle /\ UtilIdle

\* Events: what the consumer, the channel and the caller can observe.
CallbackEv(callback, state, threw) ==
    [kind |-> "callback", callback |-> callback, state |-> state, threw |-> threw]
HandlerEv(result) == [kind |-> "handler", result |-> result]
SendEv == [kind |-> "send"]
TimerEv == [kind |-> "timer"]
ThrowEv == [kind |-> "throw"]      \* an exception reached the caller of the operation

\* The part of the state the hook's functions read and write: the registry and
\* the event log.
Heap(reg, ev) == [reg |-> reg, ev |-> ev, log |-> <<>>]
Log(h, requestId, e) == [h EXCEPT !.ev[requestId] = Append(@, e)]

\* logger.<level>(text, ...): one call of a logger method.
LogCall(h, level, text) == [h EXCEPT !.log = Append(@, [level |-> level, text |-> text])]

\* try { callback(state) } catch (callbackError) { logger.error(...) } as
\* handlePoeResponse does it: the callback's exception becomes a log entry.
LoggedCallback(h, requestId, callback, state, throws) ==
    LET h1 == Log(h, requestId, CallbackEv(callback, state, throws))
    IN  IF throws THEN LogCall(h1, "error", "Error executing request callback:") ELSE h1

\* The logger calls of handlePoeResponse while it computes newState.
StatusLogged(h, result) ==
    IF result.status = "error" THEN LogCall(h, "error", "Error status received:")
    ELSE IF result.status # "incomplete" /\ result.status # "complete"
    THEN LogCall(h, "error", "Unknown status received from AI handler")
    ELSE h

\* The operation that led from h0 to h1 invoked a callback.
Delivered(h0, h1) ==
    \E i \in AllIds : /\ Len(h1.ev[i]) > Len(h0.ev[i])
                      /\ h1.ev[i][Len(h1.ev[i])].kind = "callback"

\* callback(state) inside try/catch or tryCatchSync: the consumer's callback
\* runs, and whether it throws or not the caller goes on.
SafeCallback(h, requestId, callback, state, throws) ==
    Log(h, requestId, CallbackEv(callback, state, throws))

\* Mutant of handlePoeResponse: the entry of a finished request is not deleted.
handlePoeResponseKeepsEntry(h, mounted, result, context, throws) ==
    IF IsNull(context) THEN h
    ELSE
    LET requestId == Val(context)
        h0 == Log(h, requestId, HandlerEv(result))
    IN  IF ~MapHas(h0.reg, requestId) THEN h0
        ELSE IF ~mounted THEN h0
        ELSE
        LET requestEntry == h0.reg[requestId]
            newState == NewState(requestEntry.state, result)
            h1 == [h0 EXCEPT !.reg = MapSet(@, requestId,
                                            [requestEntry EXCEPT !.state = newState])]
        IN  SafeCallback(h1, requestId, requestEntry.callback, newState, throws)

\* Mutant of handlePoeResponse: streaming updates are stored but only the final
\* state is passed to the callback.
handlePoeResponseTerminalOnly(h, mounted, result, context, throws) ==
    IF IsNull(context) THEN h
    ELSE
    LET requestId == Val(context)
        h0 == Log(h, requestId, HandlerEv(result))
    IN  IF ~MapHas(h0.reg, requestId) THEN h0
        ELSE IF ~mounted THEN h0
        ELSE
        LET requestEntry == h0.reg[requestId]
            newState == NewState(requestEntry.state, result)
            h1 == [h0 EXCEPT !.reg = MapSet(@, requestId,
                                            [requestEntry EXCEPT !.state = newState])]
        IN  IF IsTerminal(newState)
            THEN [SafeCallback(h1, requestId, requestEntry.callback, newState, throws)
                    EXCEPT !.reg = MapDelete(@, requestId)]
            ELSE h1

\* Mutant of handlePoeResponse: the callback is invoked outside try/catch, so
\* its exception leaves the handler before the cleanup.
handlePoeResponseUnguarded(h, mounted, result, context, throws) ==
    IF IsNull(context) THEN h
    ELSE
    LET requestId == Val(context)
        h0 == Log(h, requestId, HandlerEv(result))
    IN  IF ~MapHas(h0.reg, requestId) THEN h0
        ELSE IF ~mounted THEN h0
        ELSE
        LET requestEntry == h0.reg[requestId]
            newState == NewState(requestEntry.state, result)
            h1 == [h0 EXCEPT !.reg = MapSet(@, requestId,
                                            [requestEntry EXCEPT !.state = newState])]
            h2 == SafeCallback(h1, requestId, requestEntry.callback, newState, throws)
        IN  IF throws THEN Log(h2, requestId, ThrowEv)
            ELSE IF IsTerminal(newState)
            THEN [h2 EXCEPT !.reg = MapDelete(@, requestId)]
            ELSE h2

\* Mutant of handlePoeResponse: a context without requestId is not told apart
\* from an unknown id and is dropped without a word.
handlePoeResponseSilentDrop(h, mounted, result, context, throws) ==
    IF IsNull(context) THEN h
    ELSE
    LET requestId == Val(context)
        h0 == Log(h, requestId, HandlerEv(result))
    IN  IF ~MapHas(h0.reg, requestId)
        THEN LogCall(h0, "warn", "Received response for unknown or completed request ID")
        ELSE IF ~mounted
        THEN LogCall(h0, "warn", "Component unmounted, discarding response for request ID")
        ELSE
        LET requestEntry == h0.reg[requestId]
            newState == NewState(requestEntry.state, result)
            h1 == StatusLogged(LogCall(h0, "debug", "Received response data via handler:"),
                               result)
            h2 == [h1 EXCEPT !.reg = MapSet(@, requestId,
                                            [requestEntry EXCEPT !.state = newState])]
            h3 == LoggedCallback(h2, requestId, requestEntry.callback, newState, throws)
        IN  IF IsTerminal(newState)
            THEN [LogCall(h3, "debug", "Request finished. Cleaning up entry.")
                    EXCEPT !.reg = MapDelete(@, requestId)]
            ELSE h3

\* handlePoeResponse(result, context); context is the nullable requestId, throws
\* tells whether the consumer's callback throws when it is invoked.
handlePoeResponse(h, mounted, result, context, throws) ==
    IF IsNull(context)
    THEN LogCall(h, "error", "Received Poe response without a valid requestId in context.")
    ELSE
    LET requestId == Val(context)
        h0 == Log(h, requestId, HandlerEv(result))
    IN  IF ~MapHas(h0.reg, requestId)
        THEN LogCall(h0, "warn", "Received response for unknown or completed request ID")
        ELSE IF ~mounted
        THEN LogCall(h0, "warn", "Component unmounted, discarding response for request ID")
        ELSE
        LET requestEntry == h0.reg[requestId]
            newState == NewState(requestEntry.state, result)
            h1 == StatusLogged(LogCall(h0, "debug", "Received response data via handler:"),
                               result)
            h2 == [h1 EXCEPT !.reg = MapSet(@, requestId,
                                            [requestEntry EXCEPT !.state = newState])]
            h3 == LoggedCallback(h2, requestId, requestEntry.callback, newState, throws)
        IN  IF IsTerminal(newState)
            THEN [LogCall(h3, "debug", "Request finished. Cleaning up entry.")
                    EXCEPT !.reg = MapDelete(@, requestId)]
            ELSE h3

ReqId(requestId) == <<"[ReqID: ", ToString(requestId), "] ">>

UnavailableText(requestId) ==
    ReqId(requestId) \o <<"usePoeAi Error: window.Poe is not available. Cannot send message.">>

RefusedText(v, requestId) ==
    ReqId(requestId) \o
    (IF v = "then"
     THEN <<"Poe message dispatch failed immediately (reason unknown).">>
     ELSE <<"Poe message dispatch failed immediately (Poe API reported success:false).">>)

\* What the send primitive can reject with: a PoeEmbedAPIError, an Error, or a
\* value that is no Error.
Rejections == {"Error", "string"}

RejectedText(v, requestId, err) ==
    ReqId(requestId) \o
    (CASE err = "PoeEmbedAPIError" -> <<"Poe API Error (", "UNKNOWN", ") during dispatch: ", "message">>
       [] err = "Error" -> <<"Error during message dispatch: ", "message">>
       [] OTHER -> IF v = "then"
                   THEN <<"An unknown error occurred during message dispatch: ", "message">>
                   ELSE <<"Error during message dispatch: ", "message">>)

\* Mutant of DispatchFailed: the callback is told, the entry stays.
DispatchFailedKeepsEntry(h, requestId, errorMsg, throws) ==
    IF MapHas(h.reg, requestId)
    THEN LET errorState == ErrorState(InitialState(requestId), errorMsg)
             entry == h.reg[requestId]
             h1 == [h EXCEPT !.reg = MapSet(@, requestId, [entry EXCEPT !.state = errorState])]
         IN  SafeCallback(h1, requestId, entry.callback, errorState, throws)
    ELSE h

\* The dispatch-failure path shared by .then (success false), .catch and their
\* await counterparts: if the request is still tracked, store the error state,
\* call the stored callback, delete the entry.
DispatchFailed(h, requestId, errorMsg, throws) ==
    IF MapHas(h.reg, requestId)
    THEN LET errorState == ErrorState(InitialState(requestId), errorMsg)
             entry == h.reg[requestId]
             h1 == [h EXCEPT !.reg = MapSet(@, requestId, [entry EXCEPT !.state = errorState])]
             h2 == SafeCallback(h1, requestId, entry.callback, errorState, throws)
         IN  [h2 EXCEPT !.reg = MapDelete(@, requestId)]
    ELSE h

\* Mutant of StartRequest: the entry is stored, the initial callback is left to
\* the first response.
StartRequestSilent(h, requestId, callback, throws) ==
    [h EXCEPT !.reg = MapSet(@, requestId,
                             [state |-> InitialState(requestId), callback |-> callback])]

\* sendToAI, its first steps: store the initial state with the callback, then
\* invoke the callback with it, inside try/catch.
StartRequest(h, requestId, callback, throws) ==
    LET initialState == InitialState(requestId)
        h1 == [h EXCEPT !.reg = MapSet(@, requestId,
                                       [state |-> initialState, callback |-> callback])]
    IN  SafeCallback(h1, requestId, callback, initialState, throws)

\* Mutant of ChannelUnavailable: the failed request keeps its entry.
ChannelUnavailableKeepsEntry(h, requestId, callback, throws) ==
    LET errorState == ErrorState(InitialState(requestId), UnavailableText(requestId))
        h1 == [h EXCEPT !.reg = MapSet(@, requestId,
                                       [state |-> errorState, callback |-> callback])]
    IN  SafeCallback(h1, requestId, callback, errorState, throws)

\* sendToAI when window.Poe is missing and the hook is not simulating: store the
\* error state, call the callback, delete the entry.
ChannelUnavailable(h, requestId, callback, throws) ==
    LET errorState == ErrorState(InitialState(requestId), UnavailableText(requestId))
        h1 == [h EXCEPT !.reg = MapSet(@, requestId,
                                       [state |-> errorState, callback |-> callback])]
        h2 == SafeCallback(h1, requestId, callback, errorState, throws)
    IN  [h2 EXCEPT !.reg = MapDelete(@, requestId)]

\* ---------------------------------------------------------------- inputs
GlobalResponses == <<Msg("GlobalSim", "Global simulation response.", "complete", "")>>
OverrideResponses == <<Msg("OverrideBot", "This is the override.", "complete", "")>>

\* The UseAiOptions a consumer may pass.
Options(simulation, simulateErrorChance, simulationResponses) ==
    [simulation |-> simulation, simulateErrorChance |-> simulateErrorChance,
     simulationResponses |-> simulationResponses, logger |-> Null]

OptionSets ==
    { Options(Null, Null, Null),
      Options(Some(FALSE), Null, Null),
      Options(Some(TRUE), Some(0), Null),
      Options(Some(TRUE), Some(100), Null),
      Options(Some(TRUE), Some(0), Some(GlobalResponses)) }

\* simulatedResponseOverride of one call.
Overrides == {Null, Some(OverrideResponses)}

\* 100 * Math.random(): Math.random() is in [0, 1).
Rolls == {0, 20, 21, 99}

\* Mutant of Init: the handler is registered whenever window.Poe exists, the
\* simulation flag is not looked at.
InitRegistersAlways ==
    /\ variant \in {"then", "await"}
    /\ windowPoe \in BOOLEAN
    /\ \E options \in OptionSets :
          /\ hookOpts = getDefaultHookOptions(options, windowPoe)
          /\ errorChanceOption = options.simulateErrorChance
    /\ logger = hookOpts.logger
    /\ globalSimulation = hookOpts.simulation
    /\ isMounted = TRUE
    /\ registered = windowPoe
    /\ lifecycle = IF registered THEN <<"register">> ELSE <<>>
    /\ captured = registered
    /\ activeRequests = EmptyMap
    /\ timers = {}
    /\ acks = {}
    /\ events = [i \in AllIds |-> <<>>]
    /\ nextId = 0
    /\ calls = 0
    /\ thrown = 0
    /\ atTeardown = Null
    /\ handlerLogs = <<>>
    /\ OtherIdle

\* ------------------------------------------------------------------- Init
\* The hook after its first render and its mount effects: isMounted set, the
\* handler registered unless simulating or window.Poe is missing.
Init ==
    /\ variant \in {"then", "await"}
    /\ windowPoe \in BOOLEAN
    /\ \E options \in OptionSets :
          /\ hookOpts = getDefaultHookOptions(options, windowPoe)
          /\ errorChanceOption = options.simulateErrorChance
    /\ logger = hookOpts.logger
    /\ globalSimulation = hookOpts.simulation
    /\ isMounted = TRUE
    /\ registered = (~globalSimulation /\ windowPoe)
    /\ lifecycle = IF registered THEN <<"register">> ELSE <<>>
    /\ captured = registered
    /\ activeRequests = EmptyMap
    /\ timers = {}
    /\ acks = {}
    /\ events = [i \in AllIds |-> <<>>]
    /\ nextId = 0
    /\ calls = 0
    /\ thrown = 0
    /\ atTeardown = Null
    /\ handlerLogs = <<>>
    /\ OtherIdle

\* ---------------------------------------------------------------- actions
N(b) == IF b THEN 1 ELSE 0

\* A callback may throw at this invocation only within the bound.
MayThrow == {FALSE} \cup (IF thrown < MaxThrows THEN {TRUE} ELSE {})

\* sendToAI(prompt, callback, requestOptions), up to its return (variant "then")
\* or its first await (variant "await").  throwsInitial / throwsError: the
\* consumer's callback throws when called with the initial / the error state;
\* sendThrows: sendUserMessage raises instead of returning a promise.
SendToAI(override, throwsInitial, throwsError, sendThrows) ==
    /\ nextId < MaxRequests
    /\ LET requestId == nextId + 1        \* generateRequestId(): a fresh id
           callback == requestId          \* the callback passed to this call
           initialState == InitialState(requestId)
           h1 == StartRequest(Heap(activeRequests, events), requestId, callback,
                              throwsInitial)
       IN  /\ nextId' = requestId
           /\ thrown' = thrown + N(throwsInitial)
                         + N(throwsError /\ ~globalSimulation /\ ~windowPoe)
           /\ IF globalSimulation
              THEN \* simulateResponse: errorChance is read, then setTimeout
                   /\ timers' = timers \cup
                          {[requestId |-> requestId, override |-> override,
                            errorChance |-> hookOpts.simulateErrorChance]}
                   /\ acks' = acks
                   /\ activeRequests' = h1.reg
                   /\ events' = Log(h1, requestId, TimerEv).ev
              ELSE IF ~windowPoe
              THEN LET h2 == ChannelUnavailable(h1, requestId, callback, throwsError)
                   IN  /\ activeRequests' = h2.reg
                       /\ events' = h2.ev
                       /\ UNCHANGED <<timers, acks>>
              ELSE LET h2 == Log(h1, requestId, SendEv)
                   IN  /\ timers' = timers
                       /\ activeRequests' = h2.reg
                       /\ IF sendThrows /\ variant = "then"
                          THEN \* the exception leaves sendToAI
                               /\ events' = Log(h2, requestId, ThrowEv).ev
                               /\ acks' = acks
                          ELSE \* a promise is pending; tryCatchAsync turns a
                               \* synchronous throw into a resolved [null, error]
                               /\ events' = h2.ev
                               /\ acks' = acks \cup {[requestId |-> requestId,
                                                      thrown |-> sendThrows]}
    /\ handlerLogs' = <<>>
    /\ UNCHANGED otherVars
    /\ UNCHANGED <<errorChanceOption, logger, globalSimulation,
                   variant, windowPoe, hookOpts, isMounted, registered, captured, calls,
                   atTeardown, lifecycle>>

\* The promise of sendUserMessage settles and the continuation of sendToAI
\* runs: outcome is "accepted" (success true), "refused" (success false) or
\* "rejected" with err.
Ack(a, outcome, err, throws) ==
    /\ a \in acks
    /\ a.thrown => outcome = "rejected"
    /\ acks' = acks \ {a}
    /\ LET requestId == a.requestId
           h0 == Heap(activeRequests, events)
           h1 == CASE outcome = "accepted" -> h0
                   [] outcome = "refused" ->
                        DispatchFailed(h0, requestId, RefusedText(variant, requestId), throws)
                   [] OTHER ->
                        DispatchFailed(h0, requestId, RejectedText(variant, requestId, err), throws)
       IN  /\ activeRequests' = h1.reg
           /\ events' = h1.ev
           /\ thrown' = thrown + N(Delivered(h0, h1) /\ throws)
    /\ handlerLogs' = <<>>
    /\ UNCHANGED otherVars
    /\ UNCHANGED <<errorChanceOption, logger, globalSimulation,
                   variant, windowPoe, hookOpts, isMounted, registered, captured,
                   timers, nextId, calls, atTeardown, lifecycle>>

\* Mutant of TimerFires: the timer callback finds nothing to do.
TimerFiresLost(t, randomRoll, throws) ==
    /\ t \in timers
    /\ timers' = timers \ {t}
    /\ handlerLogs' = <<>>
    /\ UNCHANGED otherVars
    /\ UNCHANGED <<errorChanceOption, logger, globalSimulation,
                   variant, windowPoe, hookOpts, isMounted, registered, captured,
                   activeRequests, events, thrown,
                   acks, nextId, calls, atTeardown, lifecycle>>

\* The callback given to setTimeout by simulateResponse runs.
TimerFires(t, randomRoll, throws) ==
    /\ t \in timers
    /\ timers' = timers \ {t}
    /\ LET requestId == t.requestId
           h0 == Heap(activeRequests, events)
           h1 == IF ~isMounted
                 THEN [h0 EXCEPT !.reg = MapDelete(@, requestId)]
                 ELSE IF ~MapHas(h0.reg, requestId)
                 THEN h0
                 ELSE handlePoeResponse(h0, isMounted,
                          SimulatedResult([hookOpts EXCEPT !.simulateErrorChance =
                                                             t.errorChance],
                                          t.override, randomRoll),
                          Some(requestId), throws)
       IN  /\ activeRequests' = h1.reg
           /\ events' = h1.ev
           /\ thrown' = thrown + N(Delivered(h0, h1) /\ throws)
           /\ handlerLogs' = h1.log
    /\ UNCHANGED otherVars
    /\ UNCHANGED <<errorChanceOption, logger, globalSimulation,
                   variant, windowPoe, hookOpts, isMounted, registered, captured,
                   acks, nextId, calls, atTeardown, lifecycle>>

\* The channel invokes the handler it was given by registerHandler.
HandlerCall(result, context, throws) ==
    /\ captured
    /\ calls < MaxHandlerCalls
    /\ calls' = calls + N(~IsNull(context))
    /\ LET h0 == Heap(activeRequests, events)
           h1 == handlePoeResponse(h0, isMounted, result, context, throws)
       IN  /\ activeRequests' = h1.reg
           /\ events' = h1.ev
           /\ thrown' = thrown + N(Delivered(h0, h1) /\ throws)
           /\ handlerLogs' = h1.log
    /\ UNCHANGED otherVars
    /\ UNCHANGED <<errorChanceOption, logger, globalSimulation,
                   variant, windowPoe, hookOpts, isMounted, registered, captured,
                   timers, acks, nextId, atTeardown, lifecycle>>

\* The owning component unmounts: the effect cleanups run in the order the
\* effects were declared, the isMounted one before the registration one.
Unmount ==
    /\ isMounted
    /\ isMounted' = FALSE
    /\ atTeardown' = Some(nextId)
    /\ IF registered /\ windowPoe
       THEN /\ registered' = FALSE
            /\ activeRequests' = EmptyMap
       ELSE UNCHANGED <<registered, activeRequests>>
    /\ handlerLogs' = <<>>
    /\ UNCHANGED otherVars
    /\ lifecycle' = lifecycle \o <<"unmounted">> \o
                        (IF registered /\ windowPoe THEN <<"unregister", "clear">> ELSE <<>>)
    /\ UNCHANGED <<errorChanceOption, logger, globalSimulation,
                   variant, windowPoe, hookOpts,
                   captured, timers, acks, events, nextId, calls, thrown>>

\* The host page defines window.Poe after the hook was created.
PoeLoaded ==
    /\ ~windowPoe
    /\ windowPoe' = TRUE
    /\ handlerLogs' = <<>>
    /\ UNCHANGED otherVars
    /\ UNCHANGED <<errorChanceOption, logger, globalSimulation,
                   variant, hookOpts, isMounted, registered, captured,
                   activeRequests, timers, acks, events, nextId, calls, thrown,
                   atTeardown, lifecycle>>

\* The context the channel passes: no requestId, the id of a request made so
\* far, or an id no request ever had.
Contexts == {Null} \cup {Some(i) : i \in 1..nextId} \cup {Some(StrayId)}

Next ==
    \/ \E o \in Overrides, t1 \in MayThrow, t2 \in MayThrow, st \in BOOLEAN :
          /\ thrown + N(t1) + N(t2) <= MaxThrows
          /\ SendToAI(o, t1, t2, st)
    \/ \E a \in acks, o \in {"accepted", "refused", "rejected"}, e \in Rejections,
          th \in MayThrow : Ack(a, o, e, th)
    \/ \E t \in timers, r \in Rolls, th \in MayThrow : TimerFires(t, r, th)
    \/ \E r \in ChannelResults, c \in Contexts, th \in MayThrow : HandlerCall(r, c, th)
    \/ Unmount
    \/ PoeLoaded

Spec == Init /\ [][Next]_vars

\* A hook in simulation mode.  It gave the channel no handler and sends
\* nothing, so the channel neither acknowledges nor calls back; a timer set
\* with setTimeout is run by the event loop after its delay.
SimInit == Init /\ hookOpts.simulation

SimNext ==
    \/ \E o \in Overrides, t1 \in MayThrow : SendToAI(o, t1, FALSE, FALSE)
    \/ \E t \in timers, r \in Rolls, th \in MayThrow : TimerFires(t, r, th)
    \/ Unmount
    \/ PoeLoaded

TimerRuns == \E t \in timers, r \in Rolls, th \in MayThrow : TimerFires(t, r, th)

SimSpec == SimInit /\ [][SimNext]_vars /\ WF_vars(TimerRuns)

\* ======================================================================
\* Failed results of every shape (specification ErrorTextSpec): the hook of
\* Spec on the real channel, the channel reporting failures whose responses
\* are absent, empty, or hold messages with and without an error of their own.
\* ======================================================================
PartialRateLimited == Msg("Claude", "", "error", "Rate limited")
ErrorMessages == {PartialDone, PartialFailed, PartialAnon, PartialRateLimited}

RECURSIVE MessagesUpTo(_)
MessagesUpTo(n) ==
    IF n = 0 THEN {<<>>}
    ELSE LET shorter == MessagesUpTo(n - 1)
         IN  shorter \cup {Append(ms, m) : ms \in {x \in shorter : Len(x) = n - 1},
                                           m \in ErrorMessages}

ErrorResults ==
    {[status |-> "error", responses |-> r] :
        r \in {Null} \cup {Some(ms) : ms \in MessagesUpTo(MaxErrorMessages)}}
        \cup {[status |-> "incomplete", responses |-> Some(<<PartialStream>>)]}

ErrorTextInit ==
    /\ variant \in {"then", "await"}
    /\ windowPoe = TRUE
    /\ hookOpts = getDefaultHookOptions(Options(Null, Null, Null), TRUE)
    /\ errorChanceOption = Null
    /\ logger = hookOpts.logger
    /\ globalSimulation = hookOpts.simulation
    /\ isMounted = TRUE
    /\ registered = TRUE
    /\ lifecycle = <<"register">>
    /\ captured = TRUE
    /\ activeRequests = EmptyMap
    /\ timers = {}
    /\ acks = {}
    /\ events = [i \in AllIds |-> <<>>]
    /\ nextId = 0
    /\ calls = 0
    /\ thrown = 0
    /\ atTeardown = Null
    /\ handlerLogs = <<>>
    /\ OtherIdle

ErrorTextNext ==
    \/ SendToAI(Null, FALSE, FALSE, FALSE)
    \/ \E a \in acks : Ack(a, "accepted", CHOOSE e \in Rejections : TRUE, FALSE)
    \/ \E r \in ErrorResults, i \in 1..nextId : HandlerCall(r, Some(i), FALSE)

ErrorTextSpec == ErrorTextInit /\ [][ErrorTextNext]_vars

\* ======================================================================
\* Re-rendering (specification RenderSpec): the owning component renders
\* again, with the options object it passed before or with a new one.
\* ======================================================================
\* The options of a render: the default logger or one of the consumer's, the
\* real channel or the simulation.
WithLogger(options, l) == [options EXCEPT !.logger = Some(l)]

RenderOptionSets ==
    { Options(Some(FALSE), Null, Null),
      WithLogger(Options(Some(FALSE), Null, Null), "mockLogger"),
      Options(Some(TRUE), Some(0), Null) }

\* What the channel delivers in RenderSpec: a streaming update, a final result.
RenderResults ==
    { [status |-> "incomplete", responses |-> Some(<<PartialStream>>)],
      [status |-> "complete",   responses |-> Some(<<PartialStream, PartialDone>>)] }

\* The renders recorded in the lifecycle history.
Renders == Cardinality({k \in DOMAIN lifecycle : lifecycle[k] = "render"})

RenderInit ==
    /\ variant = "then"
    /\ windowPoe \in BOOLEAN
    /\ \E options \in RenderOptionSets :
          /\ hookOpts = getDefaultHookOptions(options, windowPoe)
          /\ errorChanceOption = options.simulateErrorChance
    /\ logger = hookOpts.logger
    /\ globalSimulation = hookOpts.simulation
    /\ isMounted = TRUE
    /\ registered = (~globalSimulation /\ windowPoe)
    /\ captured = registered
    /\ lifecycle = IF registered THEN <<"register">> ELSE <<>>
    /\ activeRequests = EmptyMap
    /\ timers = {}
    /\ acks = {}
    /\ events = [i \in AllIds |-> <<>>]
    /\ nextId = 0
    /\ calls = 0
    /\ thrown = 0
    /\ atTeardown = Null
    /\ handlerLogs = <<>>
    /\ OtherIdle

\* usePoeAi(options) runs again in a mounted component and its effects follow.
\* next is Null when the component passes the options object of the previous
\* render, Some(options) when it passes a new object.  The body reads logger
\* and globalSimulation from hookOpts.current as the previous render's effect
\* left it; the registration effect runs again when one of the two differs
\* from what the previous render read, its cleanup first; the options effect
\* stores the normalised new options.
Render(next) ==
    /\ isMounted
    /\ Renders < MaxRenders
    /\ LET renderedLogger == hookOpts.logger
           renderedSimulation == hookOpts.simulation
           depsChanged == renderedLogger # logger \/ renderedSimulation # globalSimulation
           cleans == depsChanged /\ registered /\ windowPoe
           registers == depsChanged /\ ~(renderedSimulation \/ ~windowPoe)
       IN  /\ logger' = renderedLogger
           /\ globalSimulation' = renderedSimulation
           /\ activeRequests' = IF cleans THEN EmptyMap ELSE activeRequests
           /\ registered' = IF depsChanged THEN registers ELSE registered
           /\ captured' = (captured \/ registers)
           /\ lifecycle' = lifecycle \o <<"render">>
                              \o (IF cleans THEN <<"unregister", "clear">> ELSE <<>>)
                              \o (IF registers THEN <<"register">> ELSE <<>>)
    /\ IF IsNull(next)
       THEN UNCHANGED <<hookOpts, errorChanceOption>>
       ELSE /\ hookOpts' = getDefaultHookOptions(Val(next), windowPoe)
            /\ errorChanceOption' = Val(next).simulateErrorChance
    /\ handlerLogs' = <<>>
    /\ UNCHANGED otherVars
    /\ UNCHANGED <<variant, windowPoe, isMounted, timers, acks, events, nextId, calls,
                   thrown, atTeardown>>

RenderNext ==
    \/ SendToAI(Null, FALSE, FALSE, FALSE)
    \/ \E a \in acks, o \in {"accepted", "refused"} :
          Ack(a, o, CHOOSE e \in Rejections : TRUE, FALSE)
    \/ \E t \in timers, r \in Rolls : TimerFires(t, r, FALSE)
    \/ \E r \in RenderResults, i \in 1..nextId : HandlerCall(r, Some(i), FALSE)
    \/ Unmount
    \/ PoeLoaded
    \/ \E next \in {Null} \cup {Some(o) : o \in RenderOptionSets} : Render(next)

RenderSpec == RenderInit /\ [][RenderNext]_vars

\* ======================================================================
\* The simulated error chance (specification ChanceSpec): simulating hooks
\* created with a simulateErrorChance inside, below and above 0..100, or none.
\* ======================================================================
ErrorChanceOptions ==
    {Null, Some(-50), Some(-1), Some(0), Some(20), Some(50), Some(100), Some(101), Some(150)}

ChanceInit ==
    /\ variant \in {"then", "await"}
    /\ windowPoe \in BOOLEAN
    /\ \E chance \in ErrorChanceOptions :
          /\ hookOpts = getDefaultHookOptions(Options(Some(TRUE), chance, Null), windowPoe)
          /\ errorChanceOption = chance
    /\ logger = hookOpts.logger
    /\ globalSimulation = hookOpts.simulation
    /\ isMounted = TRUE
    /\ registered = (~globalSimulation /\ windowPoe)
    /\ captured = registered
    /\ lifecycle = IF registered THEN <<"register">> ELSE <<>>
    /\ activeRequests = EmptyMap
    /\ timers = {}
    /\ acks = {}
    /\ events = [i \in AllIds |-> <<>>]
    /\ nextId = 0
    /\ calls = 0
    /\ thrown = 0
    /\ atTeardown = Null
    /\ handlerLogs = <<>>
    /\ OtherIdle

ChanceNext ==
    \/ \E o \in Overrides : SendToAI(o, FALSE, FALSE, FALSE)
    \/ \E t \in timers, r \in Rolls : TimerFires(t, r, FALSE)
    \/ Unmount

ChanceSpec == ChanceInit /\ [][ChanceNext]_vars

\* ======================================================================
\* Request ids as generateRequestId makes them (specification SpecIds).
\* Spec above gives every sendToAI call a fresh id; here the id is computed
\* from the clock and the random draw, as the code computes it.
\* ======================================================================
\* The hook of Spec in a fixed state: mounted, real channel, nothing in flight.
HookIdle ==
    /\ variant = "then"
    /\ windowPoe = TRUE
    /\ hookOpts = getDefaultHookOptions(Options(Null, Null, Null), TRUE)
    /\ errorChanceOption = Null
    /\ logger = hookOpts.logger
    /\ globalSimulation = hookOpts.simulation
    /\ isMounted = TRUE
    /\ registered = TRUE
    /\ lifecycle = <<"register">>
    /\ captured = TRUE
    /\ activeRequests = EmptyMap
    /\ timers = {}
    /\ acks = {}
    /\ events = [i \in AllIds |-> <<>>]
    /\ nextId = 0
    /\ calls = 0
    /\ thrown = 0
    /\ atTeardown = Null
    /\ handlerLogs = <<>>

\* Math.random().toString(36) after "0.": the base-36 digits of the draw, as
\* many as the number has.  Two draws that differ from the eighth digit on,
\* one with a single digit, and the draw 0, whose string "0" has none.
RandomDraws ==
    { <<"k", "3", "f", "9", "a", "0", "z", "1">>,
      <<"k", "3", "f", "9", "a", "0", "z", "q">>,
      <<"i">>,
      <<>> }

\* s.substring(2, 9) of "0." followed by digits: the first seven digits.
Substring2to9(digits) == SubSeq(digits, 1, Min(7, Len(digits)))

\* `req_${Date.now()}_${Math.random().toString(36).substring(2, 9)}`
generateRequestId(dateNow, random) == <<"req_", dateNow, "_", Substring2to9(random)>>

IdInit ==
    /\ HookIdle
    /\ TextIdle
    /\ LoggerIdle
    /\ UtilIdle
    /\ now = 0
    /\ issued = <<>>

\* A millisecond passes.
IdTick ==
    /\ now < MaxNow
    /\ now' = now + 1
    /\ UNCHANGED <<hookVars, issued, idOthers>>

\* sendToAI up to the registry write: the id is generated and the entry is
\* set under it, whatever the registry holds; the callback of the k-th call
\* is k.
IdSendToAI(random) ==
    /\ Len(issued) < MaxIdCalls
    /\ LET requestId == generateRequestId(now, random)
           callback == Len(issued) + 1
       IN  /\ issued' = Append(issued, [id |-> requestId, done |-> FALSE])
           /\ activeRequests' = MapSet(activeRequests, requestId,
                                       [state |-> InitialState(requestId),
                                        callback |-> callback])
    /\ UNCHANGED <<errorChanceOption, logger, globalSimulation,
                   variant, windowPoe, hookOpts, isMounted, registered, captured,
                   timers, acks, events, nextId, calls, thrown, atTeardown, lifecycle,
                   handlerLogs, now,
                   idOthers>>

\* The channel delivers the final result of a request: the callback stored
\* under the id gets it, the entry is deleted.
IdHandlerEnds(requestId) ==
    /\ MapHas(activeRequests, requestId)
    /\ LET requestEntry == activeRequests[requestId]
       IN  issued' = [issued EXCEPT ![requestEntry.callback].done = TRUE]
    /\ activeRequests' = MapDelete(activeRequests, requestId)
    /\ UNCHANGED <<errorChanceOption, logger, globalSimulation,
                   variant, windowPoe, hookOpts, isMounted, registered, captured,
                   timers, acks, events, nextId, calls, thrown, atTeardown, lifecycle,
                   handlerLogs, now,
                   idOthers>>

IdNext ==
    \/ IdTick
    \/ \E random \in RandomDraws : IdSendToAI(random)
    \/ \E requestId \in DOMAIN activeRequests : IdHandlerEnds(requestId)

SpecIds == IdInit /\ [][IdNext]_vars

\* ======================================================================
\* usePoeAiTextGenerator (specification TextSpec): sendTextMessage wraps the
\* consumer's callback in handlePoeAiState and passes it to usePoeAi.
\* ======================================================================
\* What a parser does with the text it is given: it returns [data, null],
\* [null, null], [null, Error(message)], or it throws Error(message).
ParserOutcomes ==
    { [kind |-> "data", data |-> Some("parsed value"), message |-> ""],
      [kind |-> "data", data |-> Null, message |-> ""],
      [kind |-> "error", data |-> Null, message |-> "bad input"],
      [kind |-> "throws", data |-> Null, message |-> "boom"] }

\* originalState.responses?.[0]?.content || ""
FirstContent(originalState) ==
    IF IsNull(originalState.responses) THEN ""
    ELSE IF Val(originalState.responses) = <<>> THEN ""
    ELSE Val(originalState.responses)[1].content

\* Mutant of handlePoeAiState: the parser is asked whatever the state.
handlePoeAiStateAlwaysParses(originalState, parser, outcome) ==
    LET currentText == FirstContent(originalState)
        newState == [requestId |-> originalState.requestId,
                     generating |-> originalState.generating,
                     error |-> originalState.error,
                     text |-> currentText,
                     parsed |-> Null,
                     rawResponse |-> originalState]
    IN  IF parser
        THEN [parserCalled |-> TRUE,
              state |-> CASE outcome.kind = "throws" ->
                               [newState EXCEPT !.error =
                                    Some(<<"Parser crashed: ", outcome.message>>)]
                          [] outcome.kind = "error" ->
                               [newState EXCEPT !.error =
                                    Some(<<"Parser error: ", outcome.message>>)]
                          [] OTHER -> [newState EXCEPT !.parsed = outcome.data]]
        ELSE [parserCalled |-> FALSE, state |-> newState]

\* Mutant of handlePoeAiState: text is the content of the last message.
handlePoeAiStateLastMessage(originalState, parser, outcome) ==
    LET currentText == IF IsNull(originalState.responses) THEN ""
                       ELSE IF Val(originalState.responses) = <<>> THEN ""
                       ELSE Val(originalState.responses)[Len(Val(originalState.responses))].content
        newState == [requestId |-> originalState.requestId,
                     generating |-> originalState.generating,
                     error |-> originalState.error,
                     text |-> currentText,
                     parsed |-> Null,
                     rawResponse |-> originalState]
    IN  IF IsNull(originalState.error) /\ parser
        THEN [parserCalled |-> TRUE,
              state |-> CASE outcome.kind = "throws" ->
                               [newState EXCEPT !.error =
                                    Some(<<"Parser crashed: ", outcome.message>>)]
                          [] outcome.kind = "error" ->
                               [newState EXCEPT !.error =
                                    Some(<<"Parser error: ", outcome.message>>)]
                          [] OTHER -> [newState EXCEPT !.parsed = outcome.data]]
        ELSE [parserCalled |-> FALSE, state |-> newState]

\* handlePoeAiState(originalState) of a request sent with or without a parser;
\* outcome is what the parser does if it is called.  The result is the state
\* passed to the consumer's callback (parsed Null: the field is absent) and
\* whether the parser was called.
handlePoeAiState(originalState, parser, outcome) ==
    LET currentText == FirstContent(originalState)
        newState == [requestId |-> originalState.requestId,
                     generating |-> originalState.generating,
                     error |-> originalState.error,
                     text |-> currentText,
                     parsed |-> Null,
                     rawResponse |-> originalState]
    IN  IF IsNull(originalState.error) /\ parser
        THEN [parserCalled |-> TRUE,
              state |-> CASE outcome.kind = "throws" ->
                               [newState EXCEPT !.error =
                                    Some(<<"Parser crashed: ", outcome.message>>)]
                          [] outcome.kind = "error" ->
                               [newState EXCEPT !.error =
                                    Some(<<"Parser error: ", outcome.message>>)]
                          [] OTHER -> [newState EXCEPT !.parsed = outcome.data]]
        ELSE [parserCalled |-> FALSE, state |-> newState]

\* The states usePoeAi delivers to the callback of request 1: the initial
\* state, the state after one handler invocation, after two, and the error
\* states of the dispatch paths.
DeliveredStates ==
    LET first == {NewState(InitialState(1), r) : r \in ChannelResults}
    IN  {InitialState(1)}
        \cup first
        \cup {NewState(st, r) : st \in {x \in first : ~IsTerminal(x)}, r \in ChannelResults}
        \cup {ErrorState(InitialState(1), UnavailableText(1)),
              ErrorState(InitialState(1), RefusedText("await", 1))}

TextInit ==
    /\ HookIdle
    /\ IdIdle
    /\ LoggerIdle
    /\ UtilIdle
    /\ textRequest = Null
    /\ textCalls = <<>>

\* sendTextMessage(prompt, callback, requestOptions): sendToPoeAI is called
\* with handlePoeAiState and {stream: true, simulatedResponseOverride}.
SendTextMessage(override, parser) ==
    /\ textRequest = Null
    /\ textRequest' = Some([stream |-> TRUE, simulatedResponseOverride |-> override,
                            parser |-> parser])
    /\ UNCHANGED <<hookVars, textCalls, textOthers>>

\* usePoeAi calls the callback it was given, handlePoeAiState, with a state;
\* handlePoeAiState calls the consumer's callback with the state it builds.
TextStateDelivered(originalState, outcome) ==
    /\ textRequest # Null
    /\ Len(textCalls) < MaxTextStates
    /\ LET r == handlePoeAiState(originalState, Val(textRequest).parser, outcome)
       IN  textCalls' = Append(textCalls,
                               [original |-> originalState,
                                outcome |-> outcome,
                                parserCalled |-> r.parserCalled,
                                callback |-> <<r.state>>])
    /\ UNCHANGED <<hookVars, textRequest, textOthers>>

TextNext ==
    \/ \E o \in Overrides, parser \in BOOLEAN : SendTextMessage(o, parser)
    \/ \E st \in DeliveredStates, outcome \in ParserOutcomes : TextStateDelivered(st, outcome)

TextSpec == TextInit /\ [][TextNext]_vars

\* ======================================================================
\* useLogger (specification LoggerSpec).  The repository holds two copies of
\* hooks/useLogger.ts: src/hooks/useLogger.ts ("hooks") and the one that
\* imports tryCatchSync ("part_005").  A string that the code takes apart is a
\* sequence of one-character strings.
\* ======================================================================
LoggerCopies == {"hooks", "part_005"}

\* type LogType
LogTypes == {"trace", "debug", "log", "info", "warn", "error"}

\* Mutant of logLevelsMap: log ranks with debug.
logLevelsMapLogLow(type) ==
    CASE type = "trace" -> 0
      [] type = "debug" -> 1
      [] type = "log"   -> 1
      [] type = "info"  -> 2
      [] type = "warn"  -> 3
      [] type = "error" -> 4

\* logLevelsMap[type]
logLevelsMap(type) ==
    CASE type = "trace" -> 0
      [] type = "debug" -> 1
      [] type = "log"   -> 2
      [] type = "info"  -> 2
      [] type = "warn"  -> 3
      [] type = "error" -> 4

\* The characters of a key of logLevelsMap.
Spell(key) ==
    CASE key = "trace" -> <<"t", "r", "a", "c", "e">>
      [] key = "debug" -> <<"d", "e", "b", "u", "g">>
      [] key = "log"   -> <<"l", "o", "g">>
      [] key = "info"  -> <<"i", "n", "f", "o">>
      [] key = "warn"  -> <<"w", "a", "r", "n">>
      [] key = "error" -> <<"e", "r", "r", "o", "r">>

\* String.prototype.toLowerCase, on the letters the inputs use.
LowerChar(c) ==
    CASE c = "A" -> "a" [] c = "B" -> "b" [] c = "C" -> "c" [] c = "D" -> "d"
      [] c = "E" -> "e" [] c = "G" -> "g" [] c = "N" -> "n" [] c = "R" -> "r"
      [] c = "T" -> "t" [] c = "U" -> "u" [] c = "W" -> "w"
      [] OTHER -> c

toLowerCase(str) == [k \in 1..Len(str) |-> LowerChar(str[k])]

\* The arguments useLogger is called with: none, the empty string, names in
\* lower, upper and mixed case, and a name that is no level.
LogLevelInputs ==
    { Null,
      Some(<<>>),
      Some(<<"i", "n", "f", "o">>),
      Some(<<"D", "E", "B", "U", "G">>),
      Some(<<"W", "a", "r", "n">>),
      Some(<<"e", "r", "r", "o", "r">>),
      Some(<<"T", "R", "A", "C", "E">>),
      Some(<<"l", "o", "g">>),
      Some(<<"v", "e", "r", "b", "o", "s", "e">>) }

\* const logLevel = useMemo(...)
logLevel ==
    LET level == IF IsNull(logLevelInput) THEN Null ELSE Some(toLowerCase(Val(logLevelInput)))
    IN  IF ~IsNull(level) /\ Val(level) # <<>>
           /\ \E key \in LogTypes : Spell(key) = Val(level)
        THEN CHOOSE key \in LogTypes : Spell(key) = Val(level)
        ELSE "info"

\* ...data of a call of a logger method.
DataArgs == {<<>>, <<"message">>, <<"message", "detail">>}

\* safeStringify(data.slice(1)): JSON.stringify of an array of strings.
StringifyRest(data) == <<"[">> \o SubSeq(data, 2, Len(data)) \o <<"]">>

\* The message of the entry addLog stores; Null is undefined.  The timestamp
\* of the entry is left out.
EntryMessage(copy, data) ==
    IF Len(data) = 0 THEN (IF copy = "hooks" THEN Null ELSE Some(<<>>))
    ELSE IF Len(data) = 1 THEN Some(<<data[1]>>)
    ELSE Some(<<data[1], "  ">> \o StringifyRest(data))

LoggerInit ==
    /\ HookIdle
    /\ IdIdle
    /\ TextIdle
    /\ UtilIdle
    /\ loggerCopy \in LoggerCopies
    /\ logLevelInput \in LogLevelInputs
    /\ logs = <<>>
    /\ pendingRef = <<>>
    /\ consoleCalls = <<>>
    /\ logCalls = <<>>
    /\ updaterQueued = FALSE

\* logger.<type>(...data), that is addLog(type, ...data).
addLog(type, data) ==
    /\ Len(logCalls) < MaxLogCalls
    /\ logCalls' = Append(logCalls, [type |-> type, data |-> data])
    /\ IF logLevelsMap(type) < logLevelsMap(logLevel)
       THEN /\ consoleCalls' = IF loggerCopy = "part_005"
                               THEN Append(consoleCalls, [type |-> type, data |-> data])
                               ELSE consoleCalls
            /\ pendingRef' = pendingRef
       ELSE /\ consoleCalls' = Append(consoleCalls, [type |-> type, data |-> data])
            /\ pendingRef' = Append(pendingRef,
                                    [type |-> type,
                                     message |-> EntryMessage(loggerCopy, data)])
    /\ UNCHANGED <<hookVars, loggerCopy, logLevelInput, logs, updaterQueued, loggerOthers>>

\* The effect that runs after every render: pending entries go to the logs
\* state and the buffer is emptied.  Here React computes the new state from
\* the updater at once, inside the setLogs call.
FlushPending ==
    /\ Len(pendingRef) > 0
    /\ logs' = logs \o pendingRef
    /\ pendingRef' = <<>>
    /\ UNCHANGED <<hookVars, loggerCopy, logLevelInput, consoleCalls, logCalls,
                   updaterQueued, loggerOthers>>

LoggerNext ==
    \/ \E type \in LogTypes, data \in DataArgs : addLog(type, data)
    \/ FlushPending

LoggerSpec == LoggerInit /\ [][LoggerNext]_vars

\* ======================================================================
\* The flush of useLogger (specification FlushSpec).  setLogs is given the
\* updater ls => [...ls, ...pendingRef.current], which reads the buffer when
\* React runs it: inside the setLogs call when the component has no update
\* waiting (FlushPending above), else while it renders next, after the
\* statement pendingRef.current = [] that follows the setLogs call.
\* ======================================================================
\* The flush effect, the updater being queued for the next render.
FlushDeferred ==
    /\ ~updaterQueued
    /\ Len(pendingRef) > 0
    /\ updaterQueued' = TRUE
    /\ pendingRef' = <<>>
    /\ UNCHANGED <<hookVars, loggerCopy, logLevelInput, logs, consoleCalls, logCalls,
                   loggerOthers>>

\* The component renders and React runs the queued updater on the logs state.
RenderQueued ==
    /\ updaterQueued
    /\ logs' = logs \o pendingRef
    /\ updaterQueued' = FALSE
    /\ UNCHANGED <<hookVars, loggerCopy, logLevelInput, pendingRef, consoleCalls, logCalls,
                   loggerOthers>>

FlushNext ==
    \/ \E type \in LogTypes, data \in DataArgs : addLog(type, data)
    \/ ~updaterQueued /\ FlushPending
    \/ FlushDeferred
    \/ RenderQueued

FlushSpec == LoggerInit /\ [][FlushNext]_vars

\* ======================================================================
\* loadDataFromFile and saveDataToFile of src/unnamed/part_003
\* (specifications StorageSpec for a load, SaveSpec for saves).
\* JSON values: a number is [num |-> n], a string [str |-> s]; an object is
\* [version |-> Null or Some(value), payload |-> sequence]; any other parsed
\* value (null, a bare number) is [prim |-> its text].
\* ======================================================================
JNum(n) == [num |-> n]
JStr(s) == [str |-> s]
JObject(version, payload) == [version |-> version, payload |-> payload]
JPrim(text) == [prim |-> text]

\* typeof v === 'number', v being a property that may be missing
TypeofNumber(v) == v # Null /\ DOMAIN Val(v) = {"num"}
\* typeof d === 'object' && d !== null
IsObject(d) == "version" \in DOMAIN d

\* Version numbers as JSON writes them.
Digits == <<"0", "1", "2", "3">>
Versions == 0..3

\* The text of a file, as tokens.
ObjectText(versionToken, payload) ==
    <<"{", "\"version\":", versionToken, ",", "\"payload\":", payload, "}">>
VersionTokens == {Digits[n + 1] : n \in Versions} \cup {"\"2\""}
FileTexts ==
    {ObjectText(t, "\"a\"") : t \in VersionTokens}
        \cup { <<"{", "\"payload\":", "\"a\"", "}">>,
               <<"null">>,
               <<"42">>,
               <<"{", "\"version\":">>,
               <<"not json">> }

\* JSON.parse(fileContent): the parsed value, or the SyntaxError it throws.
JSONparse(text) ==
    IF Len(text) = 7 /\ text[1] = "{" /\ text[2] = "\"version\":" /\ text[7] = "}"
    THEN [ok |-> TRUE,
          value |-> JObject(IF \E n \in Versions : Digits[n + 1] = text[3]
                            THEN Some(JNum(CHOOSE n \in Versions : Digits[n + 1] = text[3]))
                            ELSE Some(JStr("2")),
                            <<"a">>)]
    ELSE IF Len(text) = 4 /\ text[1] = "{" /\ text[4] = "}"
    THEN [ok |-> TRUE, value |-> JObject(Null, <<"a">>)]
    ELSE IF text \in {<<"null">>, <<"42">>}
    THEN [ok |-> TRUE, value |-> JPrim(text[1])]
    ELSE [ok |-> FALSE, message |-> "Unexpected token"]

\* e.target?.result: a string, or something else (null, an ArrayBuffer)
FileContents == {Null} \cup {Some(t) : t \in FileTexts}

\* What a function given by the caller can throw (or, returning a promise,
\* reject with): an Error, a value that is no Error and has no message, and
\* null or undefined.
ThrownValues == { [error |-> "Kaboom"], [str |-> "boom"], [nullish |-> TRUE] }

\* (err as Error).message inside a template literal: the message, the text
\* "undefined" for a value without one, and a TypeError for null and
\* undefined, which have no properties to read (Null here).
MessageOf(err) ==
    IF "error" \in DOMAIN err THEN Some(err.error)
    ELSE IF "str" \in DOMAIN err THEN Some("undefined")
    ELSE Null

\* migrate as the caller may write it: it returns (or resolves to) an object
\* with some version, returns nothing, or throws (or rejects).
MigrateBehaviours ==
    {[kind |-> "returns", version |-> v] :
        v \in {Some(JNum(n)) : n \in 1..2} \cup {Some(JStr("2")), Null}}
        \cup {[kind |-> "returnsNothing"]}
        \cup {[kind |-> "throws", thrown |-> t] : t \in ThrownValues}

\* validate as the caller may write it.
ValidateBehaviours ==
    {[kind |-> "returns", value |-> b] : b \in BOOLEAN}
        \cup {[kind |-> "throws", thrown |-> t] : t \in ThrownValues}

CurrentVersions == 1..2

\* LoadOptions: {currentVersion, migrate?, validate?}
LoadOptionSets ==
    [currentVersion : CurrentVersions,
     migrate : {Null} \cup {Some(b) : b \in MigrateBehaviours},
     validate : {Null} \cup {Some(b) : b \in ValidateBehaviours}]

\* What migrate returns for the loaded data.
Migrated(behaviour, loadedData) ==
    JObject(behaviour.version, loadedData.payload \o <<"migrated">>)

\* A Result tuple [data, error].
Result(data, error) == [data |-> data, error |-> error]
Failure(message) == Result(Null, Some(message))

\* One run of a handler of loadDataFromFile: the value resolve() was called
\* with, if it was called; the calls of migrate and of validate; and whether
\* an exception left the handler.
Run(resolve, migrate, validate, escaped) ==
    [resolve |-> resolve, migrate |-> migrate, validate |-> validate,
     escaped |-> escaped]

\* The end of reader.onload: validation of dataToValidate, then resolve.
Validated(options, dataToValidate, migrate) ==
    IF options.validate = Null
    THEN Run(Some(Result(Some(dataToValidate), Null)), migrate, <<>>, FALSE)
    ELSE LET behaviour == Val(options.validate)
             called == << <<dataToValidate>> >>
         IN  IF behaviour.kind = "returns"
             THEN IF behaviour.value
                  THEN Run(Some(Result(Some(dataToValidate), Null)), migrate, called, FALSE)
                  ELSE Run(Some(Failure(<<"Loaded data failed validation.">>)),
                           migrate, called, FALSE)
             ELSE IF MessageOf(behaviour.thrown) = Null
                  THEN Run(Null, migrate, called, TRUE)
                  ELSE Run(Some(Failure(<<"Data validation failed: ",
                                          Val(MessageOf(behaviour.thrown))>>)),
                           migrate, called, FALSE)

\* The version choice of reader.onload, for parsed data that is an object
\* with a numeric version.
VersionChoice(options, parsedData) ==
    LET currentVersion == options.currentVersion
        version == Val(parsedData.version).num
    IN  IF version < currentVersion
        THEN IF options.migrate = Null
             THEN Run(Some(Failure(<<"Data version ", version,
                                     " is older than current version ", currentVersion,
                                     ", and no migration function was provided.">>)),
                      <<>>, <<>>, FALSE)
             ELSE LET behaviour == Val(options.migrate)
                      called == << <<parsedData, version>> >>
                  IN  IF behaviour.kind = "returns"
                      THEN LET migratedData == Migrated(behaviour, parsedData)
                           IN  IF \/ ~TypeofNumber(migratedData.version)
                                  \/ Val(migratedData.version).num # currentVersion
                               THEN Run(Some(Failure(<<"Migration function failed to update data to the current version or version property is invalid.">>)),
                                        called, <<>>, FALSE)
                               ELSE Validated(options, migratedData, called)
                      ELSE IF behaviour.kind = "returnsNothing"
                      THEN Run(Some(Failure(<<"Data migration failed: ",
                                              "Cannot read properties of undefined">>)),
                               called, <<>>, FALSE)
                      ELSE IF MessageOf(behaviour.thrown) = Null
                           THEN Run(Null, called, <<>>, TRUE)
                           ELSE Run(Some(Failure(<<"Data migration failed: ",
                                                   Val(MessageOf(behaviour.thrown))>>)),
                                    called, <<>>, FALSE)
        ELSE IF version > currentVersion
        THEN Run(Some(Failure(<<"Loaded data version ", version,
                                " is newer than current version ", currentVersion,
                                ". This is not supported.">>)),
                 <<>>, <<>>, FALSE)
        ELSE Validated(options, parsedData, <<>>)

\* reader.onload
onload(options, fileContent) ==
    IF fileContent = Null
    THEN Run(Some(Failure(<<"Failed to read file content as text.">>)), <<>>, <<>>, FALSE)
    ELSE LET parsed == JSONparse(Val(fileContent))
         IN  IF ~parsed.ok
             THEN Run(Some(Failure(<<"Failed to parse JSON from file: ", parsed.message>>)),
                      <<>>, <<>>, FALSE)
             ELSE IF ~IsObject(parsed.value) \/ ~TypeofNumber(parsed.value.version)
             THEN Run(Some(Failure(<<"Invalid data format: Loaded file must contain an object with a 'version' property of type number.">>)),
                      <<>>, <<>>, FALSE)
             ELSE VersionChoice(options, parsed.value)

\* JSON.stringify(data, null, 2): the text, or the TypeError thrown for data
\* that refers to itself.
CircularPayload == <<"self">>
JSONstringify(data) ==
    IF data.payload = CircularPayload
    THEN [ok |-> FALSE, thrown |-> [error |-> "Converting circular structure to JSON"]]
    ELSE [ok |-> TRUE,
          text |-> ObjectText(Digits[Val(data.version).num + 1], "\"a\"")]

\* The data saveDataToFile may be given: with a number, a string or nothing
\* as version, serialisable or not.
SaveData ==
    {JObject(v, payload) :
        v \in {Some(JNum(n)) : n \in 1..2} \cup {Some(JStr("2")), Null},
        payload \in {<<"a">>, CircularPayload}}
Filenames == {"a.json", "b.json"}

\* The Blob, URL and DOM calls of the second try block: all succeed, or one
\* before a.click() throws, or one after it does.
DomOutcomes == {"ok", "throwsBeforeClick", "throwsAfterClick"}

\* saveDataToFile clicking the anchor before it looks at the data.
saveDataToFileClicksFirst(filename, data, dom) ==
    IF ~TypeofNumber(data.version)
    THEN [returned |-> Failure(<<"Data must have a 'version' property of type number.">>),
          clicks |-> <<filename>>]
    ELSE [returned |-> Result(Some(TRUE), Null), clicks |-> <<filename>>]

\* saveDataToFile(filename, data): what it returns and the anchor clicks it
\* makes (the download attribute of each).
saveDataToFile(filename, data, dom) ==
    IF ~TypeofNumber(data.version)
    THEN [returned |-> Failure(<<"Data must have a 'version' property of type number.">>),
          clicks |-> <<>>]
    ELSE LET serialized == JSONstringify(data)
         IN  IF ~serialized.ok
             THEN [returned |-> Failure(<<serialized.thrown.error>>), clicks |-> <<>>]
             ELSE IF dom = "throwsBeforeClick"
             THEN [returned |-> Failure(<<"DOM error">>), clicks |-> <<>>]
             ELSE IF dom = "throwsAfterClick"
             THEN [returned |-> Failure(<<"DOM error">>), clicks |-> <<filename>>]
             ELSE [returned |-> Result(Some(TRUE), Null), clicks |-> <<filename>>]

StorageInit ==
    /\ HookIdle
    /\ IdIdle
    /\ TextIdle
    /\ LoggerIdle
    /\ StorageIdle
    /\ TryIdle
    /\ FilterIdle
    /\ ParserIdle

\* loadDataFromFile(options): the input element is made, its onchange set,
\* and it is clicked; the promise is pending.
LoadDataFromFile(options) ==
    /\ loadPc = "idle"
    /\ loadOptions' = Some(options)
    /\ loadPc' = "dialog"
    /\ UNCHANGED <<hookVars, fileRead, resolved, migrateCalls, validateCalls,
                   downloads, saveCalls, storageOthers>>

\* input.onchange: without a file the promise resolves to [null, null], with
\* one a FileReader is started on it.
InputOnChange(hasFile) ==
    /\ loadPc = "dialog"
    /\ IF hasFile
       THEN /\ loadPc' = "reading"
            /\ resolved' = resolved
       ELSE /\ loadPc' = "done"
            /\ resolved' = Append(resolved, Result(Null, Null))
    /\ UNCHANGED <<hookVars, loadOptions, fileRead, migrateCalls, validateCalls,
                   downloads, saveCalls, storageOthers>>

\* reader.onload, with its awaits: nothing else of this module runs between
\* them.  An exception that leaves the async handler rejects the promise the
\* handler returned, which nobody holds: resolve is not called.
ReaderOnLoad(fileContent) ==
    /\ loadPc = "reading"
    /\ fileRead' = <<fileContent>>
    /\ LET run == onload(Val(loadOptions), fileContent)
       IN  /\ resolved' = IF run.resolve = Null THEN resolved
                          ELSE Append(resolved, Val(run.resolve))
           /\ migrateCalls' = migrateCalls \o run.migrate
           /\ validateCalls' = validateCalls \o run.validate
           /\ loadPc' = IF run.escaped THEN "crashed" ELSE "done"
    /\ UNCHANGED <<hookVars, loadOptions, downloads, saveCalls, storageOthers>>

\* reader.onerror
ReaderOnError ==
    /\ loadPc = "reading"
    /\ resolved' = Append(resolved, Failure(<<"Error reading file.">>))
    /\ loadPc' = "done"
    /\ UNCHANGED <<hookVars, loadOptions, fileRead, migrateCalls, validateCalls,
                   downloads, saveCalls, storageOthers>>

StorageNext ==
    \/ \E options \in LoadOptionSets : LoadDataFromFile(options)
    \/ \E hasFile \in BOOLEAN : InputOnChange(hasFile)
    \/ \E fileContent \in FileContents : ReaderOnLoad(fileContent)
    \/ ReaderOnError

StorageSpec == StorageInit /\ [][StorageNext]_vars

\* saveDataToFile(filename, data)
SaveDataToFile(filename, data, dom) ==
    /\ Len(saveCalls) < MaxSaveCalls
    /\ LET r == saveDataToFile(filename, data, dom)
       IN  /\ downloads' = downloads \o r.clicks
           /\ saveCalls' = Append(saveCalls,
                                  [filename |-> filename, data |-> data, dom |-> dom,
                                   returned |-> r.returned,
                                   clicksBefore |-> Len(downloads)])
    /\ UNCHANGED <<hookVars, loadOptions, loadPc, fileRead, resolved, migrateCalls,
                   validateCalls, storageOthers>>

SaveNext ==
    \E filename \in Filenames, data \in SaveData, dom \in DomOutcomes :
        SaveDataToFile(filename, data, dom)

SaveSpec == StorageInit /\ [][SaveNext]_vars

\* ======================================================================
\* tryCatchSync and tryCatchAsync of src/src/utils/tryCatch.ts
\* (specification TrySpec).
\* ======================================================================
\* What fn can throw or reject with: an Error instance, a string, undefined,
\* and an object without prototype, which String() cannot convert.
ThrownError == [error |-> "Kaboom", made |-> "by fn"]
TryThrownValues ==
    {ThrownError, [str |-> "boom"], [nullish |-> TRUE], [bare |-> TRUE]}

\* error instanceof Error
InstanceofError(error) == "error" \in DOMAIN error

\* String(error): the text, or Null when the conversion throws a TypeError
String(error) ==
    IF "error" \in DOMAIN error THEN Some("Error: " \o error.error)
    ELSE IF "str" \in DOMAIN error THEN Some(error.str)
    ELSE IF "nullish" \in DOMAIN error THEN Some("undefined")
    ELSE Null

\* new Error(message)
NewError(message) == [error |-> message, made |-> "by new Error"]
ConversionError == [error |-> "Cannot convert object to primitive value",
                    made |-> "by String"]

\* mapError as the caller may write it: absent, returning a value made from
\* the caught error, or throwing.
MapErrorThrown == [error |-> "mapError failed", made |-> "by mapError"]
MapErrors ==
    {Null, Some([kind |-> "returns"]), Some([kind |-> "throws", thrown |-> MapErrorThrown])}
Mapped(error) == [mapped |-> error]

\* fn as the caller may write it.  For tryCatchAsync, "returns" is a value
\* that is no promise, "resolves" and "rejects" a promise, "throws" an
\* exception before any promise exists.
SyncFns ==
    {[kind |-> "returns", value |-> "v"]}
        \cup {[kind |-> "throws", thrown |-> t] : t \in TryThrownValues}
AsyncFns ==
    SyncFns \cup {[kind |-> "resolves", value |-> "v"]}
            \cup {[kind |-> "rejects", thrown |-> t] : t \in TryThrownValues}

\* The catch block that takes the caught error as it is (error as E).
CaughtUnwrapped(error, mapError) ==
    IF mapError # Null
    THEN IF Val(mapError).kind = "returns"
         THEN [ok |-> TRUE, tuple |-> Result(Null, Some(Mapped(error)))]
         ELSE [ok |-> FALSE, thrown |-> Val(mapError).thrown]
    ELSE [ok |-> TRUE, tuple |-> Result(Null, Some(error))]

\* The catch block of both functions: the tuple it returns, or the exception
\* that leaves it.
Caught(error, mapError) ==
    IF mapError # Null
    THEN IF Val(mapError).kind = "returns"
         THEN [ok |-> TRUE, tuple |-> Result(Null, Some(Mapped(error)))]
         ELSE [ok |-> FALSE, thrown |-> Val(mapError).thrown]
    ELSE IF InstanceofError(error)
         THEN [ok |-> TRUE, tuple |-> Result(Null, Some(error))]
         ELSE IF String(error) = Null
              THEN [ok |-> FALSE, thrown |-> ConversionError]
              ELSE [ok |-> TRUE, tuple |-> Result(Null, Some(NewError(Val(String(error)))))]

\* tryCatchSync(fn, mapError): it returns a tuple or throws.
tryCatchSync(fn, mapError) ==
    IF fn.kind = "returns"
    THEN [kind |-> "returns", tuple |-> Result(Some(fn.value), Null)]
    ELSE LET c == Caught(fn.thrown, mapError)
         IN  IF c.ok THEN [kind |-> "returns", tuple |-> c.tuple]
             ELSE [kind |-> "throws", thrown |-> c.thrown]

\* tryCatchAsync(fn, mapError): the promise it returns resolves to a tuple or
\* rejects.
tryCatchAsync(fn, mapError) ==
    IF fn.kind \in {"returns", "resolves"}
    THEN [kind |-> "resolves", tuple |-> Result(Some(fn.value), Null)]
    ELSE LET c == Caught(fn.thrown, mapError)
         IN  IF c.ok THEN [kind |-> "resolves", tuple |-> c.tuple]
             ELSE [kind |-> "rejects", thrown |-> c.thrown]

TryInit ==
    /\ HookIdle
    /\ IdIdle
    /\ TextIdle
    /\ LoggerIdle
    /\ StorageIdle
    /\ FilterIdle
    /\ ParserIdle
    /\ tryCalls = <<>>

TryCatchSync(fn, mapError) ==
    /\ Len(tryCalls) < MaxTryCalls
    /\ tryCalls' = Append(tryCalls, [async |-> FALSE, fn |-> fn, mapError |-> mapError,
                                      outcome |-> tryCatchSync(fn, mapError)])
    /\ UNCHANGED <<hookVars, tryOthers>>

TryCatchAsync(fn, mapError) ==
    /\ Len(tryCalls) < MaxTryCalls
    /\ tryCalls' = Append(tryCalls, [async |-> TRUE, fn |-> fn, mapError |-> mapError,
                                      outcome |-> tryCatchAsync(fn, mapError)])
    /\ UNCHANGED <<hookVars, tryOthers>>

TryNext ==
    \/ \E fn \in SyncFns, mapError \in MapErrors : TryCatchSync(fn, mapError)
    \/ \E fn \in AsyncFns, mapError \in MapErrors : TryCatchAsync(fn, mapError)

TrySpec == TryInit /\ [][TryNext]_vars

\* ======================================================================
\* applyGeminiThinkingFilter of src/src/utils/geminiFilter.ts
\* (specification FilterSpec).  A text is a sequence of characters; the
\* marker *Thinking...* is written as one character of its own.
\* ======================================================================
Marker == "*Thinking...*"
Newline == "\n"
FilterChars == {Marker, Newline, " ", ">", "a"}

\* The texts of at most n characters.
RECURSIVE TextsUpTo(_)
TextsUpTo(n) ==
    IF n = 0 THEN {<<>>}
    ELSE LET shorter == TextsUpTo(n - 1)
         IN  shorter \cup {Append(t, c) : t \in {s \in shorter : Len(s) = n - 1},
                                          c \in FilterChars}

\* text.split('\n')
RECURSIVE Split(_)
Split(text) ==
    IF \A k \in 1..Len(text) : text[k] # Newline
    THEN <<text>>
    ELSE LET k == CHOOSE i \in 1..Len(text) :
                      text[i] = Newline /\ \A j \in 1..(i - 1) : text[j] # Newline
         IN  <<SubSeq(text, 1, k - 1)>> \o Split(SubSeq(text, k + 1, Len(text)))

\* lines.join('\n')
RECURSIVE Join(_)
Join(lines) ==
    IF lines = <<>> THEN <<>>
    ELSE IF Len(lines) = 1 THEN lines[1]
    ELSE lines[1] \o <<Newline>> \o Join(Tail(lines))

\* line.trim()
RECURSIVE TrimStart(_)
TrimStart(line) ==
    IF line # <<>> /\ line[1] = " " THEN TrimStart(Tail(line)) ELSE line
RECURSIVE TrimEnd(_)
TrimEnd(line) ==
    IF line # <<>> /\ line[Len(line)] = " "
    THEN TrimEnd(SubSeq(line, 1, Len(line) - 1))
    ELSE line
Trim(line) == TrimEnd(TrimStart(line))

\* trimmedLine.startsWith('>')
StartsWithQuote(trimmedLine) == trimmedLine # <<>> /\ trimmedLine[1] = ">"

\* lines.findIndex(line => line.trim() === '*Thinking...*'), 0 for -1 and
\* indices from 1
FindThinkingLine(lines) ==
    IF \E k \in 1..Len(lines) : Trim(lines[k]) = <<Marker>>
    THEN CHOOSE k \in 1..Len(lines) :
             /\ Trim(lines[k]) = <<Marker>>
             /\ \A j \in 1..(k - 1) : Trim(lines[j]) # <<Marker>>
    ELSE 0

\* the first while loop: from index i, past the lines that are empty or
\* start with ">" once trimmed
RECURSIVE SkipQuoted(_, _)
SkipQuoted(lines, i) ==
    IF i <= Len(lines) /\ (StartsWithQuote(Trim(lines[i])) \/ Trim(lines[i]) = <<>>)
    THEN SkipQuoted(lines, i + 1)
    ELSE i

\* The filter skipping only the lines that start with ">".
applyGeminiThinkingFilterKeepsBlank(text) ==
    IF text = <<>> THEN <<>>
    ELSE LET lines == Split(text)
             thinkingStarLineIndex == FindThinkingLine(lines)
         IN  IF thinkingStarLineIndex # 0
             THEN LET i == CHOOSE n \in (thinkingStarLineIndex + 1)..(Len(lines) + 1) :
                               /\ \A j \in (thinkingStarLineIndex + 1)..(n - 1) :
                                      StartsWithQuote(Trim(lines[j]))
                               /\ n <= Len(lines) => ~StartsWithQuote(Trim(lines[n]))
                  IN  Join(SubSeq(lines, i, Len(lines)))
             ELSE text

applyGeminiThinkingFilter(text) ==
    IF text = <<>> THEN <<>>
    ELSE LET lines == Split(text)
             thinkingStarLineIndex == FindThinkingLine(lines)
         IN  IF thinkingStarLineIndex # 0
             THEN LET i == SkipQuoted(lines, thinkingStarLineIndex + 1)
                  IN  Join(SubSeq(lines, i, Len(lines)))
             ELSE text

FilterInit ==
    /\ HookIdle
    /\ IdIdle
    /\ TextIdle
    /\ LoggerIdle
    /\ StorageIdle
    /\ TryIdle
    /\ ParserIdle
    /\ filterInput \in {Some(t) : t \in TextsUpTo(MaxFilterText)}
    /\ filterOutput = Null

ApplyGeminiThinkingFilter ==
    /\ filterOutput = Null
    /\ filterOutput' = Some(applyGeminiThinkingFilter(Val(filterInput)))
    /\ UNCHANGED <<hookVars, filterInput, filterOthers>>

FilterNext == ApplyGeminiThinkingFilter

FilterSpec == FilterInit /\ [][FilterNext]_vars

\* ======================================================================
\* complexResponseParser of src/unnamed/part_003 (specification ParserSpec).
\* A text is a sequence of characters; the two tags and the two fences of a
\* json block are each written as one character of their own, and so is a
\* complete JSON value; <fence> stands for the three backquotes.
\* ======================================================================
DEFAULT_RESPONSE_START_TAG == "<response>"
DEFAULT_RESPONSE_END_TAG == "</response>"
FenceOpen == "<fence>json\n"
FenceClose == "\n<fence>"
JsonValue == "{}"
ParserChars == {DEFAULT_RESPONSE_START_TAG, DEFAULT_RESPONSE_END_TAG,
                FenceOpen, FenceClose, JsonValue, "x", " "}

\* The texts of at most n characters.
RECURSIVE ParserTextsUpTo(_)
ParserTextsUpTo(n) ==
    IF n = 0 THEN {<<>>}
    ELSE LET shorter == ParserTextsUpTo(n - 1)
         IN  shorter \cup {Append(t, c) : t \in {s \in shorter : Len(s) = n - 1},
                                          c \in ParserChars}

\* rawText.indexOf(tag, fromIndex) with positions counted from 1: the first
\* position at or after fromIndex that holds the tag, 0 when there is none
IndexOf(text, tag, fromIndex) ==
    IF \E k \in fromIndex..Len(text) : text[k] = tag
    THEN CHOOSE k \in fromIndex..Len(text) :
             text[k] = tag /\ \A j \in fromIndex..(k - 1) : text[j] # tag
    ELSE 0

\* rawText.substring(start) with positions counted from 1
Substring(text, start) == SubSeq(text, start, Len(text))

\* text.match(/<fence>json\n([\s\S]*?)\n<fence>/): Null without a match, else the
\* first group, the shortest text between the first opening fence and a
\* closing fence after it
MatchJsonBlock(text) ==
    LET open == IndexOf(text, FenceOpen, 1)
        close == IF open = 0 THEN 0 ELSE IndexOf(text, FenceClose, open + 1)
    IN  IF close = 0 THEN Null ELSE Some(SubSeq(text, open + 1, close - 1))

\* JSON.parse(group): white space around one JSON value is allowed, anything
\* else is a SyntaxError
ParseJsonGroup(group) ==
    IF Trim(group) = <<JsonValue>>
    THEN [ok |-> TRUE, value |-> [json |-> JsonValue]]
    ELSE [ok |-> FALSE, message |-> "Unexpected token"]

\* ParsedComplexAiResponse
Payload(response, data) == [response |-> response, data |-> data]

\* Steps 2 and 3 of the parser: the json block is looked for in
\* textAfterResponseBlock; its group is parsed if it is not the empty string
\* (jsonMatch?.[1] is falsy for an empty group as for no match).
ParsedBlock(responseContent, textAfterResponseBlock) ==
    LET jsonMatch == MatchJsonBlock(textAfterResponseBlock)
    IN  IF jsonMatch # Null /\ Val(jsonMatch) # <<>>
        THEN LET parsed == ParseJsonGroup(Val(jsonMatch))
             IN  IF parsed.ok
                 THEN Result(Some(Payload(Trim(responseContent), Some(parsed.value))), Null)
                 ELSE Failure(<<parsed.message>>)
        ELSE Result(Some(Payload(Trim(responseContent), Null)), Null)

complexResponseParser(rawText) ==
    LET startTag == DEFAULT_RESPONSE_START_TAG
        endTag == DEFAULT_RESPONSE_END_TAG
        responseStartIndex == IndexOf(rawText, startTag, 1)
    IN  IF responseStartIndex # 0
        THEN LET contentActualStartIndex == responseStartIndex + 1
                 responseEndIndex == IndexOf(rawText, endTag, contentActualStartIndex)
             IN  IF responseEndIndex # 0
                 THEN ParsedBlock(SubSeq(rawText, contentActualStartIndex,
                                         responseEndIndex - 1),
                                  Substring(rawText, responseEndIndex + 1))
                 ELSE ParsedBlock(Substring(rawText, contentActualStartIndex), <<>>)
        ELSE ParsedBlock(<<>>, rawText)

ParserInit ==
    /\ HookIdle
    /\ IdIdle
    /\ TextIdle
    /\ LoggerIdle
    /\ StorageIdle
    /\ TryIdle
    /\ FilterIdle
    /\ parserInput \in {Some(t) : t \in ParserTextsUpTo(MaxParserText)}
    /\ parserOutput = Null

ComplexResponseParser ==
    /\ parserOutput = Null
    /\ parserOutput' = Some(complexResponseParser(Val(parserInput)))
    /\ UNCHANGED <<hookVars, parserInput, parserOthers>>

ParserNext == ComplexResponseParser

ParserSpec == ParserInit /\ [][ParserNext]_vars

\* ======================================================================
\* Properties
\* ======================================================================
Last(seq) == seq[Len(seq)]

\* The callback invocations recorded for request id i, in order.
CallbackEvents(i) == SelectSeq(events[i], LAMBDA e : e.kind = "callback")

\* A terminal state was delivered for request id i.
Ended(state) == state.status \in {"complete", "error"}

TerminalDelivered(i) ==
    \E j \in 1..Len(events[i]) :
        events[i][j].kind = "callback" /\ Ended(events[i][j].state)

\* The initial state sendToAI delivers, with status as the specification words it.
PendingShape(i, state) ==
    /\ state.requestId = i
    /\ state.generating = TRUE
    /\ state.status = "pending"
    /\ state.error = Null
    /\ state.responses = Null

IncompleteShape(i, state) ==
    /\ state.requestId = i
    /\ state.generating = TRUE
    /\ state.status = "incomplete"
    /\ state.error = Null
    /\ state.responses = Null

\* C1 as stated: for every request made so far the first thing that happened
\* is the invocation of its callback, with generating=true, status=pending,
\* error=null, responses=null and the new id, before the send or the timer.
C1_FirstCallbackPending ==
    \A i \in Ids :
        IF i <= nextId
        THEN /\ events[i] # <<>>
             /\ events[i][1].kind = "callback"
             /\ events[i][1].callback = i
             /\ PendingShape(i, events[i][1].state)
        ELSE events[i] = <<>>

\* C1 amended: the same with status=incomplete, the status the code gives the
\* initial state.  The callback is invoked by the time sendToAI returns (every
\* request counted by nextId has it), it is the first event of the request, so
\* it precedes the send, the timer and every other state.
C1_FirstCallbackIncomplete ==
    \A i \in Ids :
        IF i <= nextId
        THEN /\ events[i] # <<>>
             /\ events[i][1].kind = "callback"
             /\ events[i][1].callback = i
             /\ IncompleteShape(i, events[i][1].state)
             /\ \A j \in 2..Len(events[i]) :
                    events[i][j].kind \in {"send", "timer"} =>
                        \A k \in 2..(j - 1) : events[i][k].kind # "callback"
        ELSE events[i] = <<>>

\* Both continuations were reached: a request whose send followed the initial
\* callback and one whose timer did (in different hooks), here the first.
C1_Witness ==
    \E i \in Ids : /\ Len(events[i]) >= 2
                   /\ events[i][1].kind = "callback"
                   /\ events[i][2].kind \in {"send", "timer"}

\* C2: every callback receives at most one terminal state and nothing after
\* it; complete comes with error=null, error with a non-null error.
C2_OneTerminal ==
    \A i \in Ids :
        LET cbs == CallbackEvents(i)
        IN  \A j \in 1..Len(cbs) :
                /\ Ended(cbs[j].state) => j = Len(cbs)
                /\ cbs[j].state.status = "complete" => cbs[j].state.error = Null
                /\ cbs[j].state.status = "error" => cbs[j].state.error # Null
                /\ cbs[j].state.status \in {"incomplete", "complete", "error"}

\* A request that ended and was then named again by the channel or had its
\* acknowledgement settle: a terminal callback followed by a handler event.
C2_Witness ==
    \E i \in Ids, j \in Ids :
        /\ i # j
        /\ Len(CallbackEvents(i)) >= 2
        /\ Last(CallbackEvents(i)).state.status = "complete"
        /\ Last(events[i]).kind = "handler"
        /\ Len(CallbackEvents(j)) >= 2
        /\ Last(CallbackEvents(j)).state.status = "error"

\* C3: a handler invocation that names a request whose terminal state was
\* delivered, or an id no request ever had, invokes no callback and leaves the
\* registry as it was.
C3_EvictedIsNoOp ==
    [][\A i \in AllIds :
          ( /\ TerminalDelivered(i) \/ i = StrayId
            /\ Len(events'[i]) > Len(events[i])
            /\ events'[i][Len(events[i]) + 1].kind = "handler" )
          => /\ events'[i] = Append(events[i], events'[i][Len(events[i]) + 1])
             /\ activeRequests' = activeRequests
             /\ \A k \in AllIds \ {i} : events'[k] = events[k]]_vars

C3_Witness ==
    /\ \E i \in Ids : TerminalDelivered(i) /\ Last(events[i]).kind = "handler"
    /\ events[StrayId] # <<>>

\* The number of callback invocations recorded for request id i.
Delivered_(ev, i) == Len(SelectSeq(ev[i], LAMBDA e : e.kind = "callback"))

\* C4 as stated: once the hook is unmounted, the callback of a request made
\* before the unmount is not invoked again, whatever happens.
C4_NoCallbackAfterUnmount ==
    [][~isMounted =>
          \A i \in 1..Val(atTeardown) :
              Delivered_(events', i) = Delivered_(events, i)]_vars

C6_ResponsesReplaced ==
    [][\A i \in Ids :
          LET n == Len(events[i]) IN
          ( /\ Len(events'[i]) = n + 2
            /\ events'[i][n + 1].kind = "handler"
            /\ events'[i][n + 2].kind = "callback"
            /\ ~IsNull(events'[i][n + 1].result.responses) )
          => /\ events'[i][n + 2].state.responses = events'[i][n + 1].result.responses
             /\ MapHas(activeRequests', i) =>
                    activeRequests'[i].state.responses
                        = events'[i][n + 1].result.responses]_vars

\* A snapshot replaced a different, non-empty one.
C6_Witness ==
    \E i \in Ids :
        \E j \in 1..Len(events[i]), k \in 1..Len(events[i]) :
            /\ j < k
            /\ events[i][j].kind = "callback"
            /\ events[i][j].state.responses = Some(<<PartialStream>>)
            /\ events[i][k].kind = "callback"
            /\ events[i][k].state.responses = Some(<<PartialStream, PartialDone>>)

\* The terminal error state of a failed dispatch.
DispatchErrorShape(i, state) ==
    /\ state.requestId = i
    /\ state.generating = FALSE
    /\ state.status = "error"
    /\ state.error # Null

\* C7: when the acknowledgement of a request still in the registry fails,
\* by success=false or by rejection alike, the stored callback is invoked
\* exactly once more, with generating=false, status=error and a non-null
\* error, and the entry is removed.
C7_FailedAckEvicts ==
    [][\A a \in acks, o \in {"refused", "rejected"}, e \in Rejections, th \in BOOLEAN :
          (Ack(a, o, e, th) /\ MapHas(activeRequests, a.requestId))
          => LET i == a.requestId
                 n == Len(events[i])
             IN  /\ Len(events'[i]) = n + 1
                 /\ events'[i][n + 1].kind = "callback"
                 /\ events'[i][n + 1].callback = activeRequests[i].callback
                 /\ DispatchErrorShape(i, events'[i][n + 1].state)
                 /\ ~MapHas(activeRequests', i)
                 /\ \A k \in AllIds \ {i} : events'[k] = events[k]]_vars

\* Both shapes happened: one request was refused, the other rejected, each
\* after its initial callback and its send.
C7_Witness ==
    \E i \in Ids, j \in Ids :
        /\ Len(events[i]) = 3 /\ Len(events[j]) = 3
        /\ Last(events[i]).kind = "callback"
        /\ Last(events[i]).state.error = Some(RefusedText(variant, i))
        /\ Last(events[j]).kind = "callback"
        /\ Last(events[j]).state.error = Some(RejectedText(variant, j, "Error"))
        /\ ~MapHas(activeRequests, i) /\ ~MapHas(activeRequests, j)

\* C8 as stated: no exception reaches the caller of sendToAI, and a request
\* whose send failed is out of the registry with a terminal error delivered.
C8_NoExceptionEscapes ==
    \A i \in Ids :
        \A j \in 1..Len(events[i]) : events[i][j].kind # "throw"

\* C9: sendToAI with simulation off and window.Poe missing invokes the callback
\* exactly twice within the call, with the initial state and then with
\* generating=false, status=error and a non-null error; it does not send and
\* leaves no entry for the request.
C9_UnavailableChannel ==
    [][(nextId' = nextId + 1 /\ ~hookOpts.simulation /\ ~windowPoe)
          => LET i == nextId'
             IN  /\ Len(events'[i]) = 2
                 /\ events'[i][1].kind = "callback"
                 /\ IncompleteShape(i, events'[i][1].state)
                 /\ events'[i][2].kind = "callback"
                 /\ events'[i][2].callback = events'[i][1].callback
                 /\ DispatchErrorShape(i, events'[i][2].state)
                 /\ events'[i][2].state.responses = Null
                 /\ ~MapHas(activeRequests', i)
                 /\ acks' = acks /\ timers' = timers]_vars

C9_Witness ==
    \E i \in Ids :
        /\ Len(events[i]) = 2
        /\ events[i][2].kind = "callback"
        /\ events[i][2].state.error = Some(UnavailableText(i))
        /\ ~MapHas(activeRequests, i)
        /\ acks = {}

\* C10: a callback that throws does not make the operation that invoked it
\* throw (an exception reaches the caller only straight after a send); the
\* state it was given is the state stored while the request stays in the
\* registry, a terminal state leaves no entry behind, and a step in which a
\* callback throws changes neither the events nor the entry of another request.
C10_State ==
    \A i \in Ids :
        /\ \A j \in 1..Len(events[i]) :
              events[i][j].kind = "throw" => (j > 1 /\ events[i][j - 1].kind = "send")
        /\ MapHas(activeRequests, i) =>
              /\ CallbackEvents(i) # <<>>
              /\ activeRequests[i].state = Last(CallbackEvents(i)).state
        /\ TerminalDelivered(i) => ~MapHas(activeRequests, i)

C10_Step ==
    \A i \in Ids :
        ( /\ Len(events'[i]) > Len(events[i])
          /\ Last(events'[i]).kind = "callback"
          /\ Last(events'[i]).threw )
        => \A k \in Ids \ {i} :
              /\ events'[k] = events[k]
              /\ MapHas(activeRequests', k) = MapHas(activeRequests, k)
              /\ MapHas(activeRequests, k) => activeRequests'[k] = activeRequests[k]

C11_NoRequestIdLogged ==
    [][\A r \in ChannelResults, th \in BOOLEAN :
          HandlerCall(r, Null, th)
          => /\ events' = events
             /\ activeRequests' = activeRequests
             /\ Len(handlerLogs') = 1
             /\ handlerLogs'[1].level = "error"
             /\ UNCHANGED <<timers, acks, thrown, calls>>]_vars

\* The handler was invoked without requestId while a request was in flight,
\* which is still in flight.
C11_Witness ==
    /\ handlerLogs = <<[level |-> "error",
                 text |-> "Received Poe response without a valid requestId in context."]>>
    /\ \E i \in Ids : MapHas(activeRequests, i) /\ Len(events[i]) >= 2

\* C12: in simulation mode, when the timer of a request fires in a mounted
\* hook, whatever the random draw: with simulateErrorChance 100 the callback
\* gets a terminal error state, with simulateErrorChance 0 a terminal complete
\* state; the request then has no entry.
C12_ErrorChanceExtremes ==
    [][\A t \in timers, r \in Rolls, th \in BOOLEAN :
          ( /\ TimerFires(t, r, th)
            /\ isMounted
            /\ hookOpts.simulateErrorChance \in {0, 100} )
          => LET i == t.requestId
                 n == Len(events[i])
             IN  /\ Len(events'[i]) = n + 2
                 /\ events'[i][n + 2].kind = "callback"
                 /\ events'[i][n + 2].state.generating = FALSE
                 /\ events'[i][n + 2].state.status =
                        (IF hookOpts.simulateErrorChance = 100 THEN "error" ELSE "complete")
                 /\ (hookOpts.simulateErrorChance = 100) = (events'[i][n + 2].state.error # Null)
                 /\ ~MapHas(activeRequests', i)]_vars

\* Two requests of a hook with chance 100 both ended in error, and (in another
\* hook) two requests with chance 0 both ended complete.
C12_WitnessError ==
    /\ hookOpts.simulation /\ hookOpts.simulateErrorChance = 100
    /\ \A i \in Ids : /\ Len(CallbackEvents(i)) = 2
                      /\ Last(CallbackEvents(i)).state.status = "error"

C12_Witness ==
    /\ hookOpts.simulation /\ hookOpts.simulateErrorChance = 0
    /\ \A i \in Ids : /\ Len(CallbackEvents(i)) = 2
                      /\ Last(CallbackEvents(i)).state.status = "complete"

\* The message a successful simulation fabricates when no messages are given.
PlaceholderMessage ==
    [Msg("SimulatedAI", "This is simulated message #1.", "complete", "")
        EXCEPT !.attachments = Some(PlaceholderAttachment)]

\* The messages given, as the simulation delivers them: each with the
\* placeholder attachment it lacked.
AsDelivered(messages) ==
    [k \in 1..Len(messages) |->
        [messages[k] EXCEPT !.attachments = Some(PlaceholderAttachment)]]

\* C13: when a simulation timer delivers a complete state, its responses are
\* the messages of the per-call override if one was given, else those of the
\* hook-level simulationResponses if given, else the single placeholder message
\* from sender SimulatedAI.
C13_SimulatedMessagePriority ==
    [][\A t \in timers, r \in Rolls, th \in BOOLEAN :
          ( /\ TimerFires(t, r, th)
            /\ Len(events'[t.requestId]) = Len(events[t.requestId]) + 2
            /\ Last(events'[t.requestId]).state.status = "complete" )
          => Last(events'[t.requestId]).state.responses =
                (IF ~IsNull(t.override) THEN Some(AsDelivered(Val(t.override)))
                 ELSE IF ~IsNull(hookOpts.simulationResponses)
                      THEN Some(AsDelivered(Val(hookOpts.simulationResponses)))
                 ELSE Some(<<PlaceholderMessage>>))]_vars

\* In a hook with hook-level messages, one request with an override got the
\* override and the other, without, got the hook-level messages.
C13_Witness ==
    /\ ~IsNull(hookOpts.simulationResponses)
    /\ \E i \in Ids, j \in Ids :
          /\ Len(CallbackEvents(i)) = 2 /\ Len(CallbackEvents(j)) = 2
          /\ Last(CallbackEvents(i)).state.responses = Some(AsDelivered(OverrideResponses))
          /\ Last(CallbackEvents(j)).state.responses = Some(AsDelivered(GlobalResponses))

\* A request of a hook without hook-level messages, sent without an override,
\* got the placeholder.
C13_WitnessPlaceholder ==
    \E i \in Ids :
        /\ Len(CallbackEvents(i)) = 2
        /\ Last(CallbackEvents(i)).state.responses = Some(<<PlaceholderMessage>>)

C15_IdsNeverReused ==
    /\ \A i \in 1..Len(issued), j \in 1..Len(issued) :
          i # j => issued[i].id # issued[j].id
    /\ \A k \in 1..Len(issued) :
          ~issued[k].done =>
              /\ MapHas(activeRequests, issued[k].id)
              /\ activeRequests[issued[k].id].callback = k

\* The simulated request i is over: two callbacks, the initial state and a
\* terminal one with generating=false, and no entry.
SimulatedDone(i) ==
    LET cbs == CallbackEvents(i)
    IN  /\ Len(cbs) = 2
        /\ IncompleteShape(i, cbs[1].state)
        /\ Ended(cbs[2].state)
        /\ cbs[2].state.generating = FALSE
        /\ ~MapHas(activeRequests, i)

\* C16: in simulation mode every dispatched request has received either the
\* initial state only or the initial state and then one terminal state with
\* generating=false, never a streaming update; and unless the hook is
\* unmounted, every dispatched request eventually is in the second case, with
\* no entry left in the registry.
C16_SimulatedRequestEnds ==
    /\ [](\A i \in 1..nextId :
            LET cbs == CallbackEvents(i)
            IN  \/ Len(cbs) = 1 /\ IncompleteShape(i, cbs[1].state)
                \/ SimulatedDone(i))
    /\ \A i \in Ids : (i <= nextId) ~> (~isMounted \/ SimulatedDone(i))

\* A mounted simulating hook all of whose requests are over, one with an
\* error and one complete.
C16_Witness ==
    /\ hookOpts.simulation /\ isMounted
    /\ nextId = MaxRequests
    /\ activeRequests = EmptyMap
    /\ \A i \in Ids : SimulatedDone(i)
    /\ \E i \in Ids, j \in Ids : /\ Last(CallbackEvents(i)).state.status = "error"
                                  /\ Last(CallbackEvents(j)).state.status = "complete"

\* C17: sendTextMessage passes stream=true to usePoeAi, and for every state
\* usePoeAi delivers the consumer's callback is invoked exactly once, with
\* requestId and generating as in that state, text the content of the first
\* response message, or "" when responses is null or empty, and rawResponse
\* that state.
C17_TextStateFromFirstMessage ==
    /\ textRequest # Null => Val(textRequest).stream = TRUE
    /\ \A k \in 1..Len(textCalls) :
          LET c == textCalls[k]
              responses == c.original.responses
          IN  /\ Len(c.callback) = 1
              /\ c.callback[1].requestId = c.original.requestId
              /\ c.callback[1].generating = c.original.generating
              /\ c.callback[1].rawResponse = c.original
              /\ c.callback[1].text =
                     (IF responses = Null \/ responses = Some(<<>>) THEN ""
                      ELSE Val(responses)[1].content)

\* A streaming state with two messages gave the text of the first, and a
\* state with an empty responses array gave "".
C17_Witness ==
    \E j \in 1..Len(textCalls), k \in 1..Len(textCalls) :
        /\ textCalls[j].original.responses = Some(<<PartialStream, PartialDone>>)
        /\ textCalls[j].callback[1].text = "Thinking..."
        /\ textCalls[k].original.responses = Some(<<>>)
        /\ textCalls[k].callback[1].text = ""

\* C18: the parser is called exactly when the request has one and the
\* underlying state has no error; an upstream error is passed on unchanged; a
\* parser that returns an error gives error "Parser error: <message>" and no
\* parsed; one that throws gives "Parser crashed: <message>"; otherwise error
\* stays null and parsed is the parser's data (absent when it has none); the
\* consumer's callback is invoked in every case.
C18_ParserOnlyWithoutError ==
    \A k \in 1..Len(textCalls) :
        LET c == textCalls[k]
            st == c.callback[1]
        IN  /\ Len(c.callback) = 1
            /\ c.parserCalled = (Val(textRequest).parser /\ c.original.error = Null)
            /\ c.original.error # Null =>
                   (st.error = c.original.error /\ st.parsed = Null)
            /\ ~c.parserCalled => (st.error = c.original.error /\ st.parsed = Null)
            /\ (c.parserCalled /\ c.outcome.kind = "error") =>
                   (st.error = Some(<<"Parser error: ", c.outcome.message>>) /\ st.parsed = Null)
            /\ (c.parserCalled /\ c.outcome.kind = "throws") =>
                   (st.error = Some(<<"Parser crashed: ", c.outcome.message>>) /\ st.parsed = Null)
            /\ (c.parserCalled /\ c.outcome.kind = "data") =>
                   (st.error = Null /\ st.parsed = c.outcome.data)

\* A request with a parser: its first state was parsed, its second, an error
\* state, was passed on without asking the parser.
C18_Witness ==
    /\ Len(textCalls) = 2
    /\ Val(textRequest).parser
    /\ textCalls[1].parserCalled
    /\ textCalls[1].callback[1].parsed = Some("parsed value")
    /\ textCalls[2].original.status = "error"
    /\ ~textCalls[2].parserCalled
    /\ textCalls[2].callback[1].error = textCalls[2].original.error

\* The order of the levels as the claim gives it.
LevelOrder(type) ==
    CASE type = "trace" -> 1
      [] type = "debug" -> 2
      [] type \in {"log", "info"} -> 3
      [] type = "warn" -> 4
      [] type = "error" -> 5

\* The level each argument of useLogger stands for.
ConfiguredLevel ==
    CASE logLevelInput = Some(<<"D", "E", "B", "U", "G">>) -> "debug"
      [] logLevelInput = Some(<<"W", "a", "r", "n">>) -> "warn"
      [] logLevelInput = Some(<<"e", "r", "r", "o", "r">>) -> "error"
      [] logLevelInput = Some(<<"T", "R", "A", "C", "E">>) -> "trace"
      [] logLevelInput = Some(<<"l", "o", "g">>) -> "log"
      [] OTHER -> "info"

\* C19: the entries stored (flushed or still pending) are, in order, one for
\* each call whose level is at or above the configured level in the order
\* trace < debug < log = info < warn < error, and none for the other calls;
\* no argument, "" and an unknown name count as info, names match in any case.
C19_StoredIffAtOrAboveLevel ==
    LET stored == logs \o pendingRef
        accepted == SelectSeq(logCalls,
                        LAMBDA c : LevelOrder(c.type) >= LevelOrder(ConfiguredLevel))
    IN  /\ Len(stored) = Len(accepted)
        /\ \A k \in 1..Len(stored) : stored[k].type = accepted[k].type

\* useLogger("Warn"): an info call was not stored, an error call was.
C19_Witness ==
    /\ logLevelInput = Some(<<"W", "a", "r", "n">>)
    /\ Len(logCalls) = 2
    /\ logCalls[1].type = "info"
    /\ logCalls[2].type = "error"
    /\ logs = <<[type |-> "error", message |-> Some(<<"message">>)]>>
    /\ pendingRef = <<>>

\* C20 as stated: the console calls are the logger calls, one for one, same
\* method, same arguments, whether the call was stored or not.
C20_EveryCallReachesConsole ==
    /\ Len(consoleCalls) = Len(logCalls)
    /\ \A k \in 1..Len(logCalls) :
          /\ consoleCalls[k].type = logCalls[k].type
          /\ consoleCalls[k].data = logCalls[k].data

\* ----------------------------------------------------------------------
\* C21: loadDataFromFile chooses by the loaded version.  Equal to
\* currentVersion: the loaded data is the result, unchanged, and migrate is
\* not called.  Greater: the result is an error.  Smaller without migrate: an
\* error.  Smaller with migrate: migrate is called once with (loaded data,
\* loaded version), and its result is the result of the load exactly when its
\* version is the number currentVersion; a result with another version, and a
\* migrate that throws, give an error.  Stated for loads whose options carry
\* no validate function, so that the version choice alone decides.
\* ----------------------------------------------------------------------
\* reader.onload has run on a file whose JSON is an object with a number as version
VersionedFileLoaded ==
    /\ fileRead # <<>>
    /\ fileRead[1] # Null
    /\ JSONparse(Val(fileRead[1])).ok
    /\ IsObject(JSONparse(Val(fileRead[1])).value)
    /\ TypeofNumber(JSONparse(Val(fileRead[1])).value.version)

LoadedData == JSONparse(Val(fileRead[1])).value
LoadedVersion == Val(LoadedData.version).num

IsError(result) == result.data = Null /\ result.error # Null

C21_LoadChoosesByVersion ==
    (VersionedFileLoaded /\ Val(loadOptions).validate = Null) =>
        LET options == Val(loadOptions)
            currentVersion == options.currentVersion
        IN  /\ Len(resolved) = 1
            /\ LoadedVersion = currentVersion =>
                    /\ resolved[1] = Result(Some(LoadedData), Null)
                    /\ migrateCalls = <<>>
            /\ LoadedVersion > currentVersion =>
                    /\ IsError(resolved[1])
                    /\ migrateCalls = <<>>
            /\ (LoadedVersion < currentVersion /\ options.migrate = Null) =>
                    IsError(resolved[1])
            /\ (LoadedVersion < currentVersion /\ options.migrate # Null) =>
                    LET behaviour == Val(options.migrate)
                    IN  /\ migrateCalls = << <<LoadedData, LoadedVersion>> >>
                        /\ IF /\ behaviour.kind = "returns"
                              /\ behaviour.version = Some(JNum(currentVersion))
                           THEN resolved[1] = Result(Some(Migrated(behaviour, LoadedData)), Null)
                           ELSE IsError(resolved[1])

\* ----------------------------------------------------------------------
\* C22, as stated: saveDataToFile returns [null, Error] and clicks no anchor
\* when data.version is not a number or the data cannot be serialised;
\* otherwise it clicks exactly one anchor, whose download attribute is the
\* given filename, and returns [true, null].
\* ----------------------------------------------------------------------
\* the anchor clicks made by the k-th saveDataToFile call
ClicksOf(k) ==
    SubSeq(downloads, saveCalls[k].clicksBefore + 1,
           IF k = Len(saveCalls) THEN Len(downloads) ELSE saveCalls[k + 1].clicksBefore)

Unsavable(data) == ~TypeofNumber(data.version) \/ data.payload = CircularPayload

C22_SaveAsStated ==
    \A k \in 1..Len(saveCalls) :
        IF Unsavable(saveCalls[k].data)
        THEN IsError(saveCalls[k].returned) /\ ClicksOf(k) = <<>>
        ELSE /\ saveCalls[k].returned = Result(Some(TRUE), Null)
             /\ ClicksOf(k) = <<saveCalls[k].filename>>

\* C22, amended: the second case holds when no Blob, URL or DOM call throws;
\* when one does, the call returns [null, Error] and has clicked at most one
\* anchor, under the given filename.
C22_SaveDownloadsOrFails ==
    \A k \in 1..Len(saveCalls) :
        IF Unsavable(saveCalls[k].data)
        THEN IsError(saveCalls[k].returned) /\ ClicksOf(k) = <<>>
        ELSE IF saveCalls[k].dom = "ok"
        THEN /\ saveCalls[k].returned = Result(Some(TRUE), Null)
             /\ ClicksOf(k) = <<saveCalls[k].filename>>
        ELSE /\ IsError(saveCalls[k].returned)
             /\ ClicksOf(k) \in {<<>>, <<saveCalls[k].filename>>}

\* a refused save followed by a successful one under another name
C22_Witness ==
    /\ Len(saveCalls) = 2
    /\ Unsavable(saveCalls[1].data)
    /\ ~Unsavable(saveCalls[2].data)
    /\ saveCalls[2].dom = "ok"
    /\ downloads = <<saveCalls[2].filename>>

\* ----------------------------------------------------------------------
\* C23: tryCatchSync(fn, mapError) returns [fn's value, null] when fn returns
\* and [null, e] when fn throws, where e is mapError(thrown) if mapError is
\* given, else the thrown value itself if it is an Error, else a new Error
\* whose message is String(thrown); tryCatchAsync resolves to the same tuple
\* for a fulfilled promise, a rejected promise and a throw inside fn.  Where
\* e does not exist, because mapError or String throws, nothing is said.
\* ----------------------------------------------------------------------
Completed(call) == call.outcome.kind = IF call.async THEN "resolves" ELSE "returns"
FnFails(call) == call.fn.kind \in {"throws", "rejects"}

C24_AlwaysATuple ==
    \A k \in 1..Len(tryCalls) : Completed(tryCalls[k])

\* ----------------------------------------------------------------------
\* C25: applyGeminiThinkingFilter returns its input unchanged when no line
\* trims to *Thinking...*.  Otherwise it returns the lines from some line
\* after the first marker line on: every line between the marker and that
\* line is blank or starts with ">" once trimmed, that line (if there is
\* one) is neither, and every line from it on is returned as it was, a later
\* marker line included.
\* ----------------------------------------------------------------------
IsMarkerLine(line) == Trim(line) = <<Marker>>
IsSkippable(line) == Trim(line) = <<>> \/ Trim(line)[1] = ">"

C25_ThinkingFilter ==
    filterOutput # Null =>
        LET lines == Split(Val(filterInput))
            out == Val(filterOutput)
        IN  IF \A k \in 1..Len(lines) : ~IsMarkerLine(lines[k])
            THEN out = Val(filterInput)
            ELSE \E m \in 1..Len(lines), first \in 2..(Len(lines) + 1) :
                    /\ IsMarkerLine(lines[m])
                    /\ \A j \in 1..(m - 1) : ~IsMarkerLine(lines[j])
                    /\ m < first
                    /\ \A j \in (m + 1)..(first - 1) : IsSkippable(lines[j])
                    /\ first <= Len(lines) => ~IsSkippable(lines[first])
                    /\ out = Join([j \in 1..(Len(lines) + 1 - first) |-> lines[first - 1 + j]])

\* text before the marker, a blank line after it, then a second marker that
\* is kept
C25_Witness ==
    /\ filterInput = Some(<<"a", Newline, Marker, Newline, Newline, Marker>>)
    /\ filterOutput = Some(<<Marker>>)

\* ----------------------------------------------------------------------
\* C26: complexResponseParser returns as response the trimmed text between
\* the first start tag and the first end tag after it (the rest of the text
\* when the end tag is missing, the empty string when the start tag is
\* missing).  The json block is looked for after the end tag, in the whole
\* text when there is no start tag, and not at all when the end tag is
\* missing.  A block found whose content is not valid JSON gives
\* [null, Error]; otherwise the result is a payload in which data is present
\* exactly when a block was found.
\* ----------------------------------------------------------------------
\* positions of the tags in the text given, 0 when missing
StartTagAt == IndexOf(Val(parserInput), DEFAULT_RESPONSE_START_TAG, 1)
EndTagAt ==
    IF StartTagAt = 0 THEN 0
    ELSE IndexOf(Val(parserInput), DEFAULT_RESPONSE_END_TAG, StartTagAt + 1)

ExpectedResponse ==
    IF StartTagAt = 0 THEN <<>>
    ELSE IF EndTagAt = 0 THEN Trim(SubSeq(Val(parserInput), StartTagAt + 1, Len(Val(parserInput))))
    ELSE Trim(SubSeq(Val(parserInput), StartTagAt + 1, EndTagAt - 1))

\* the part of the text in which a json block counts
JsonSearchText ==
    IF StartTagAt = 0 THEN Val(parserInput)
    ELSE IF EndTagAt = 0 THEN <<>>
    ELSE SubSeq(Val(parserInput), EndTagAt + 1, Len(Val(parserInput)))

\* a json block there: an opening fence with a closing fence after it
BlockFound ==
    \E a, b \in 1..Len(JsonSearchText) :
        a < b /\ JsonSearchText[a] = FenceOpen /\ JsonSearchText[b] = FenceClose

\* the content of the first block
BlockContent ==
    LET a == CHOOSE i \in 1..Len(JsonSearchText) :
                 /\ JsonSearchText[i] = FenceOpen
                 /\ \A j \in 1..(i - 1) : JsonSearchText[j] # FenceOpen
        b == CHOOSE i \in (a + 1)..Len(JsonSearchText) :
                 /\ JsonSearchText[i] = FenceClose
                 /\ \A j \in (a + 1)..(i - 1) : JsonSearchText[j] # FenceClose
    IN  SubSeq(JsonSearchText, a + 1, b - 1)

ValidJson(content) == Trim(content) = <<JsonValue>>

C26_ParserResult ==
    parserOutput # Null =>
        LET out == Val(parserOutput)
        IN  IF BlockFound /\ ~ValidJson(BlockContent)
            THEN IsError(out)
            ELSE /\ out.error = Null
                 /\ out.data # Null
                 /\ Val(out.data).response = ExpectedResponse
                 /\ (Val(out.data).data # Null) <=> BlockFound

\* ----------------------------------------------------------------------
\* C27: when a handler invocation for an active request supplies responses
\* that are absent or an empty sequence, the state delivered to the callback
\* has the responses of the state held before the invocation.
\* ----------------------------------------------------------------------
C27_EmptyResponsesKeepPrevious ==
    [][\A i \in Ids :
          LET n == Len(events[i]) IN
          ( /\ Len(events'[i]) = n + 2
            /\ events'[i][n + 1].kind = "handler"
            /\ events'[i][n + 2].kind = "callback"
            /\ events'[i][n + 1].result.responses \in {Null, Some(<<>>)} )
          => events'[i][n + 2].state.responses = activeRequests[i].state.responses]_vars

\* ----------------------------------------------------------------------
\* C28: in every state delivered to a callback, by sendToAI, by the handler
\* or by a dispatch-failure path, generating is true exactly when status is
\* incomplete, and error is non-null exactly when status is error.
\* ----------------------------------------------------------------------
C28_GeneratingAndErrorFollowStatus ==
    \A i \in Ids : \A j \in 1..Len(events[i]) :
        events[i][j].kind = "callback" =>
            LET state == events[i][j].state
            IN  /\ state.generating <=> (state.status = "incomplete")
                /\ (state.error # Null) <=> (state.status = "error")

\* one request ended by a failed dispatch and another by a handler result
\* with status error, after a streamed state
C28_Witness ==
    \E i \in Ids, k \in Ids :
        /\ i # k
        /\ \E j \in 1..Len(events[i]) :
              /\ events[i][j].kind = "callback"
              /\ events[i][j].state.error = Some(RefusedText(variant, i))
        /\ \E j \in 2..Len(events[k]) :
              /\ events[k][j].kind = "callback"
              /\ events[k][j - 1].kind = "handler"
              /\ events[k][j - 1].result.status = "error"
              /\ events[k][j].state.status = "error"

\* ----------------------------------------------------------------------
\* C29: a handler invocation for an active request whose result status is
\* none of incomplete, complete, error is a terminal error: the callback
\* receives status error, generating false and an error that is not null,
\* and the entry leaves the registry.
\* ----------------------------------------------------------------------
KnownStatuses == {"incomplete", "complete", "error"}

C29_UnknownStatusIsTerminalError ==
    [][\A i \in Ids :
          LET n == Len(events[i]) IN
          ( /\ Len(events'[i]) > n
            /\ events'[i][n + 1].kind = "handler"
            /\ events'[i][n + 1].result.status \notin KnownStatuses
            /\ MapHas(activeRequests, i)
            /\ isMounted )
          => /\ Len(events'[i]) = n + 2
             /\ events'[i][n + 2].kind = "callback"
             /\ events'[i][n + 2].callback = activeRequests[i].callback
             /\ events'[i][n + 2].state.status = "error"
             /\ events'[i][n + 2].state.generating = FALSE
             /\ events'[i][n + 2].state.error # Null
             /\ ~MapHas(activeRequests', i)]_vars

\* a streamed request was ended by a result with status cancelled
C29_Witness ==
    \E i \in Ids :
        \E j \in 3..Len(events[i]) :
            /\ events[i][j].kind = "callback"
            /\ events[i][j - 1].kind = "handler"
            /\ events[i][j - 1].result.status = "cancelled"
            /\ events[i][j].state.error = Some(UnknownStatusError("cancelled"))
            /\ events[i][j - 2].kind = "callback"
            /\ events[i][j - 2].state.status = "incomplete"
            /\ ~MapHas(activeRequests, i)

\* ----------------------------------------------------------------------
\* C30: for a handler result with status error, the error text delivered is
\* made of one line '[<senderId> Error]: <statusText>' for each response
\* message whose own status is error, and for no other, in the order of the
\* responses, the lines separated by newlines; 'Bot' stands in for a missing
\* sender and 'Unknown error' for a missing text; when no message has status
\* error, or responses is absent, the text is the fixed generic message.
\* ----------------------------------------------------------------------
ExpectedLine(msg) ==
    <<"[", IF msg.senderId = "" THEN "Bot" ELSE msg.senderId, " Error]: ",
      IF msg.statusText = "" THEN "Unknown error" ELSE msg.statusText>>

RECURSIVE ExpectedLines(_)
ExpectedLines(msgs) ==
    IF msgs = <<>> THEN <<>>
    ELSE IF Head(msgs).status = "error"
         THEN (IF ExpectedLines(Tail(msgs)) = <<>>
               THEN ExpectedLine(Head(msgs))
               ELSE ExpectedLine(Head(msgs)) \o <<"\n">> \o ExpectedLines(Tail(msgs)))
         ELSE ExpectedLines(Tail(msgs))

ExpectedErrorText(responses) ==
    IF responses = Null \/ ExpectedLines(Val(responses)) = <<>>
    THEN <<"An unknown error occurred during response generation.">>
    ELSE ExpectedLines(Val(responses))

C30_ErrorTextFromFailedMessages ==
    [][\A i \in Ids :
          LET n == Len(events[i]) IN
          ( /\ Len(events'[i]) = n + 2
            /\ events'[i][n + 1].kind = "handler"
            /\ events'[i][n + 1].result.status = "error"
            /\ events'[i][n + 2].kind = "callback" )
          => events'[i][n + 2].state.error
                 = Some(ExpectedErrorText(events'[i][n + 1].result.responses))]_vars

\* one request failed with two lines, the second with both stand-ins, behind
\* a message that had not failed; another failed without responses
C30_Witness ==
    \E i \in Ids, k \in Ids :
        /\ \E j \in 2..Len(events[i]) :
              /\ events[i][j - 1].kind = "handler"
              /\ events[i][j - 1].result.responses = Some(<<PartialDone, PartialRateLimited>>)
              /\ events[i][j].kind = "callback"
              /\ events[i][j].state.error = Some(<<"[", "Claude", " Error]: ", "Rate limited">>)
        /\ \E j \in 2..Len(events[k]) :
              /\ events[k][j - 1].kind = "handler"
              /\ events[k][j - 1].result.responses = Null
              /\ events[k][j - 1].result.status = "error"
              /\ events[k][j].kind = "callback"
              /\ events[k][j].state.error = Some(GenericErrorText)

\* ----------------------------------------------------------------------
\* C32 as stated: the step in which the hook is torn down leaves the registry
\* empty, whatever was in flight and whatever the mode.
C32_RegistryEmptyAfterTeardown ==
    [][(isMounted /\ ~isMounted') => activeRequests' = EmptyMap]_vars

\* ----------------------------------------------------------------------
\* The positions of a step in the lifecycle history.
Positions(step) == {k \in DOMAIN lifecycle : lifecycle[k] = step}

\* C33 as stated: once the hook is torn down, the handler was unregistered
\* (exactly once if one was registered) before the mounted flag went false,
\* and the registry was cleared after that, once.
C33_TeardownOrder ==
    ~isMounted =>
        /\ \A u \in Positions("unregister"), m \in Positions("unmounted") : u < m
        /\ \A m \in Positions("unmounted"), c \in Positions("clear") : m < c
        /\ Cardinality(Positions("clear")) = 1
        /\ Cardinality(Positions("unregister")) = Cardinality(Positions("register"))

\* ----------------------------------------------------------------------
\* C34: between operations every entry of the registry is in flight: status
\* incomplete and generating true.
C34_EntriesAreInFlight ==
    \A i \in DOMAIN activeRequests :
        /\ activeRequests[i].state.status = "incomplete"
        /\ activeRequests[i].state.generating = TRUE
        /\ activeRequests[i].state.error = Null

\* One request has received a streaming update and is still in the registry,
\* another one has received its final state and has no entry any more.
C34_Witness ==
    \E i \in Ids, j \in Ids :
        /\ i # j
        /\ MapHas(activeRequests, i)
        /\ activeRequests[i].state.responses # Null
        /\ ~MapHas(activeRequests, j)
        /\ events[j] # <<>>
        /\ Last(events[j]).kind = "callback"
        /\ Last(events[j]).state.status \in {"complete", "error"}

\* ----------------------------------------------------------------------
\* C35 as stated: once the hook is torn down no step adds, replaces or removes
\* a registry entry.
C35_RegistryFrozenAfterTeardown ==
    [][(~isMounted /\ ~isMounted') => activeRequests' = activeRequests]_vars

\* ----------------------------------------------------------------------
\* A step in which the send primitive was invoked for request i.
Sends(i) ==
    \E k \in (Len(events[i]) + 1)..Len(events'[i]) : events'[i][k].kind = "send"

\* C36 as stated: whenever the send primitive is invoked, the handler it names
\* is registered with the channel.
C36_SendNamesRegisteredHandler ==
    [][\A i \in Ids : Sends(i) => registered]_vars

\* ----------------------------------------------------------------------
\* C31 as stated: the registry is never cleared while the hook is mounted, it
\* has been cleared exactly once when the hook is torn down, and a render of
\* the mounted hook, whatever options it brings, drops no request in flight.
C31_ClearedOnceAtTeardown ==
    /\ [](isMounted => Positions("clear") = {})
    /\ [](~isMounted => Cardinality(Positions("clear")) = 1)
    /\ [][(isMounted /\ isMounted' /\ lifecycle' # lifecycle)
             => activeRequests' = activeRequests]_vars

\* ----------------------------------------------------------------------
\* The handler is invoked in this step with the id of the a-th sendToAI call
\* and finds an entry under it.
HandlerInvokedFor(a) ==
    /\ MapHas(activeRequests, issued[a].id)
    /\ ~MapHas(activeRequests', issued[a].id)

\* C37 as stated, for handler invocations: the invocation that carries the id
\* of request a leaves the entry of every other request b in flight as it was
\* and does not invoke b's callback.
C37_OtherRequestsUntouched ==
    [][\A a \in 1..Len(issued), b \in 1..Len(issued) :
          (a # b /\ ~issued[b].done /\ HandlerInvokedFor(a))
          => /\ issued'[b].done = issued[b].done
             /\ MapHas(activeRequests', issued[b].id)
             /\ activeRequests'[issued[b].id] = activeRequests[issued[b].id]]_vars

\* ----------------------------------------------------------------------
\* The error chance, in percent, the claim gives a hook for the option passed.
StatedChance ==
    IF IsNull(errorChanceOption) THEN 20
    ELSE IF Val(errorChanceOption) > 100 THEN 100
    ELSE IF Val(errorChanceOption) < 0 THEN 0
    ELSE Val(errorChanceOption)

\* C38: the chance a simulated request carries is the option clamped to
\* 0..100, 20 when the option is omitted, and when its timer runs in a mounted
\* hook the request fails exactly if the chance is positive and the roll is at
\* most the chance: always above 100 as at 100, never below 0 as at 0.
C38_ErrorChanceClamped ==
    /\ [](\A t \in timers : t.errorChance = StatedChance)
    /\ [][\A t \in timers, r \in Rolls :
             (TimerFires(t, r, FALSE) /\ isMounted)
             => /\ Last(events'[t.requestId]).kind = "callback"
                /\ Last(events'[t.requestId]).state.status =
                       (IF StatedChance > 0 /\ r <= StatedChance
                        THEN "error" ELSE "complete")]_vars

\* In a hook created with a chance above 100 every request has failed.
C38_Witness ==
    /\ errorChanceOption # Null
    /\ Val(errorChanceOption) > 100
    /\ nextId = MaxRequests
    /\ timers = {}
    /\ \A i \in Ids : /\ Last(events[i]).kind = "callback"
                      /\ Last(events[i]).state.status = "error"

\* ----------------------------------------------------------------------
\* The entries of the calls useLogger accepted, in call order.
AcceptedEntries ==
    LET accepted == SelectSeq(logCalls,
                        LAMBDA c : logLevelsMap(c.type) >= logLevelsMap(logLevel))
    IN  [k \in 1..Len(accepted) |->
            [type |-> accepted[k].type,
             message |-> EntryMessage(loggerCopy, accepted[k].data)]]

\* C39 as stated: whenever no state update is waiting for a render, the logs
\* followed by the pending buffer are the accepted entries, each once and in
\* call order; an entry is in the logs only after a flush.
C39_FlushKeepsEveryEntry ==
    ~updaterQueued => logs \o pendingRef = AcceptedEntries

\* ----------------------------------------------------------------------
\* C40 as stated: once the change event of a loadDataFromFile call has been
\* handled, with the file read if one was chosen, the promise has resolved
\* exactly once, to [data, null], [null, null] or [null, Error]; validate was
\* given the data that is returned, the migrated data if migrate ran; and a
\* validate that returned false or threw, or a migrate that threw, gave
\* [null, Error].
C40_LoadResolvesOnce ==
    loadPc \in {"done", "crashed"} =>
        LET options == Val(loadOptions)
            migrateThrew == /\ migrateCalls # <<>>
                            /\ Val(options.migrate).kind = "throws"
            validateFailed == /\ validateCalls # <<>>
                              /\ \/ Val(options.validate).kind = "throws"
                                 \/ ~Val(options.validate).value
        IN  /\ Len(resolved) = 1
            /\ resolved[1].data = Null \/ resolved[1].error = Null
            /\ (migrateThrew \/ validateFailed) => IsError(resolved[1])
            /\ (resolved[1].data # Null /\ options.validate # Null)
                   => validateCalls = << <<Val(resolved[1].data)>> >>
            /\ (validateCalls # <<>> /\ migrateCalls # <<>>)
                   => validateCalls[1][1] = Migrated(Val(options.migrate), LoadedData)


====
